---- MODULE Spec2Model ----
(***************************************************************************)
(* zipget: task store (memstor), manager (download-slot gate, write-back), *)
(* loader (HEAD probes, sequential download into a ZIP) and the HTTP       *)
(* handlers that drive them.                                               *)
(***************************************************************************)
EXTENDS Integers, Sequences, FiniteSets, TLC

VARIABLES
    cfg,          \* config.Manager / memstor.Config: MaxTotal, MaxActive, MaxFiles, TaskTTL
    run,          \* the environment: URLs clients submit, request goroutines in use, last clock tick
    tasks,        \* Memstor.tasks: task id -> [Files, ExpiresAt]
    cancelled,    \* Memstor.cancelled
    active,       \* Manager.active
    now,          \* wall clock
    sweep,        \* the sweeper goroutine: [pc, expiredTasks, due]
    pc,           \* per request goroutine: where the handler is
    req,          \* per request goroutine: [kind, id]
    snap,         \* per request goroutine: the local files read by GetTaskFiles
    out,          \* per request goroutine: ZIP entries written to the response body
    resp,         \* per request goroutine: HTTP status and Content-Type sent
    ret,          \* per request goroutine: error returned by the last Manager or Loader call
    call,         \* per goroutine: the Loader call it made: [urls, running, closed, failFrom]
    egress,       \* one DialContext of the guarded transport: address, resolver answer, outcome
    fname,        \* one file name on its way through sanitizeFilename
    heap,         \* backing arrays of the slices of Files, by address
    mu            \* Memstor.mu: [readers, writer]

vars == <<cfg, run, tasks, cancelled, active, now, sweep, pc, req, snap, out, resp, ret, call,
          egress, fname, heap, mu>>

(***************************************************************************)
(* Bounds of the model.                                                    *)
(***************************************************************************)
NProcs == 4        \* request goroutines of the archive burst
NClients == 2      \* request goroutines racing on one store
MaxTaskID == 1     \* rand.Int64() is drawn from 0..MaxTaskID
MaxTime == 4       \* the clock stops ticking here
MaxLen == 2        \* cap on a file list when MaxFiles is unlimited
MaxBatch == 3      \* files of the task a lone client archives

Procs == 1..NProcs
Clients == 1..NClients
TaskIDs == 0..MaxTaskID

(***************************************************************************)
(* Program constants.                                                      *)
(***************************************************************************)
magicLen == 8
cleanTimeout == 2  \* one minute, the clock counting half minutes
maxBaseNameLen == 100
StatusOK == 200
StatusBadRequest == 400
StatusForbidden == 403
StatusNotFound == 404
StatusConflict == 409
StatusInternalServerError == 500
StatusBadGateway == 502
StatusServiceUnavailable == 503

AllowMIMETypes == {"application/pdf", "image/jpeg"}

Min(a, b) == IF a < b THEN a ELSE b

\* http.StatusText: the empty string for a code it does not know
StatusText(code) ==
    CASE code = 0 -> ""
      [] code = StatusBadRequest -> "Bad Request"
      [] code = StatusForbidden -> "Forbidden"
      [] code = StatusNotFound -> "Not Found"
      [] code = StatusInternalServerError -> "Internal Server Error"
      [] code = StatusBadGateway -> "Bad Gateway"
      [] code = StatusServiceUnavailable -> "Service Unavailable"
      [] OTHER -> ""

(***************************************************************************)
(* model.File and its zero value.                                          *)
(***************************************************************************)
ZeroFile ==
    [ID |-> 0, URL |-> "", ContentType |-> "", RealType |-> "", OrigName |-> <<>>,
     Name |-> <<>>, Size |-> 0, Status |-> 0, ErrorMsg |-> ""]

(***************************************************************************)
(* MIME registry: fileTypes and the signature lookup.                      *)
(***************************************************************************)
fileTypes ==
    << [MIMEType |-> "image/jpeg",      Magic |-> <<255, 216, 255>>,   Extensions |-> << <<".", "j", "p", "g">>, <<".", "j", "p", "e", "g">> >>],
       [MIMEType |-> "image/png",       Magic |-> <<137, 80, 78, 71>>, Extensions |-> << <<".", "p", "n", "g">> >>],
       [MIMEType |-> "image/gif",       Magic |-> <<71, 73, 70, 56>>,  Extensions |-> << <<".", "g", "i", "f">> >>],
       [MIMEType |-> "application/pdf", Magic |-> <<37, 80, 68, 70>>,  Extensions |-> << <<".", "p", "d", "f">> >>],
       [MIMEType |-> "application/zip", Magic |-> <<80, 75, 3, 4>>,    Extensions |-> << <<".", "z", "i", "p">> >>] >>

NoFileType == [MIMEType |-> "", Magic |-> <<>>, Extensions |-> <<>>]

HasPrefix(s, p) == Len(p) <= Len(s) /\ SubSeq(s, 1, Len(p)) = p

Extension(ft) == IF Len(ft.Extensions) = 0 THEN <<>> ELSE ft.Extensions[1]

\* getFileTypeBySignature: the first table entry whose magic is a prefix; NoFileType = ErrUnknownFileType
getFileTypeBySignature(magic) ==
    LET hits == {i \in 1..Len(fileTypes) : HasPrefix(magic, fileTypes[i].Magic)}
    IN IF hits = {} THEN NoFileType
       ELSE fileTypes[CHOOSE i \in hits : \A j \in hits : i <= j]

(***************************************************************************)
(* Filename sanitizer.  A name is a sequence of code points, each written  *)
(* as a one-element string token.                                          *)
(***************************************************************************)
defaultFileName == <<"u", "n", "n", "a", "m", "e", "d">>

SpaceRunes == {" ", "TAB"}                       \* unicode.IsSpace
ControlRunes == {"SOH", "ZWSP"}                  \* unicode.IsControl or not unicode.IsPrint
asciiProblem == {"LT", "GT", "COLON", "DQUOTE", "/", "BACKSLASH", "PIPE", "QUESTION", "STAR",
                 "TILDE", ".", "SEMICOLON", "HASH", "DOLLAR", "PERCENT", "AMP", "QUOTE",
                 "LPAREN", "RPAREN", "LBRACE", "RBRACE", "LBRACKET", "RBRACKET", "BANG",
                 "BACKTICK"}
fullwidthProblem == {"FWLT", "FWGT", "FWCOLON", "FWSLASH", "FWPIPE", "FWQUESTION", "FWSTAR"}

reservedNames ==
    { <<"C","O","N">>, <<"P","R","N">>, <<"A","U","X">>, <<"N","U","L">> }
    \cup { <<"C","O","M", d>> : d \in {"1","2","3","4","5","6","7","8","9","SUP1","SUP2","SUP3"} }
    \cup { <<"L","P","T", d>> : d \in {"1","2","3","4","5","6","7","8","9","SUP1","SUP2","SUP3"} }

UpperRune(r) ==
    CASE r = "a" -> "A" [] r = "c" -> "C" [] r = "l" -> "L" [] r = "m" -> "M"
      [] r = "n" -> "N" [] r = "o" -> "O" [] r = "p" -> "P" [] r = "r" -> "R"
      [] r = "t" -> "T" [] r = "u" -> "U" [] r = "x" -> "X"
      [] OTHER -> r

ToUpper(s) == [i \in 1..Len(s) |-> UpperRune(s[i])]

RECURSIVE Itoa(_)
Itoa(n) ==
    LET d == <<"0","1","2","3","4","5","6","7","8","9">>
    IN IF n < 10 THEN <<d[n + 1]>> ELSE Itoa(n \div 10) \o <<d[(n % 10) + 1]>>

\* index of the last element of s that lies in set, 0 when there is none
LastIndexAny(s, set) ==
    LET hits == {i \in 1..Len(s) : s[i] \in set}
    IN IF hits = {} THEN 0 ELSE CHOOSE i \in hits : \A j \in hits : j <= i

\* the loop of sanitizeFilename: i is the next rune, prev the last rune written,
\* acc the builder, n the number of runes written
RECURSIVE sanitizeLoop(_, _, _, _, _, _)
sanitizeLoop(s, i, prev, acc, n, maxLen) ==
    IF i > Len(s) \/ n >= maxLen THEN acc
    ELSE LET r0 == s[i]
             dropped == r0 \notin SpaceRunes /\ r0 \in ControlRunes
             r == IF r0 \in SpaceRunes \/ r0 \in asciiProblem \/ r0 \in fullwidthProblem
                  THEN "-" ELSE r0
         IN IF dropped THEN sanitizeLoop(s, i + 1, prev, acc, n, maxLen)
            ELSE IF r = "-" /\ prev = "-" THEN sanitizeLoop(s, i + 1, prev, acc, n, maxLen)
            ELSE sanitizeLoop(s, i + 1, r, Append(acc, r), n + 1, maxLen)

\* the final dash, if any, is cut; an empty result becomes the default name
TrimDash(name) ==
    IF Len(name) > 0 /\ name[Len(name)] = "-" THEN SubSeq(name, 1, Len(name) - 1) ELSE name

\* a default name that holds a rune the loop would replace
OrDefaultDotted(name) == IF name = <<>> THEN <<"n", "o", ".", "n", "a", "m", "e">> ELSE name

OrDefault(name) == IF name = <<>> THEN defaultFileName ELSE name

sanitizeFilename(s, maxLen) == OrDefault(TrimDash(sanitizeLoop(s, 1, "-", <<>>, 0, maxLen)))

\* filepath.Base for a name that does not end in a separator
Base(fileName) == SubSeq(fileName, LastIndexAny(fileName, {"/", "BACKSLASH"}) + 1, Len(fileName))

\* the name without its last extension
TrimExt(f, dot) == IF dot # 0 THEN SubSeq(f, 1, dot - 1) ELSE f

\* a tail that guards a reserved name whatever the number
JoinNameGuarding(baseName, fileExt, uniqueNum) ==
    LET guarded == IF ToUpper(baseName) \in reservedNames THEN baseName \o <<"_">> ELSE baseName
    IN IF uniqueNum > 0 THEN guarded \o <<"-">> \o Itoa(uniqueNum) \o fileExt
       ELSE guarded \o fileExt

\* the tail of constructFileName once the base name is sanitized
JoinName(baseName, fileExt, uniqueNum) ==
    IF uniqueNum > 0 THEN baseName \o <<"-">> \o Itoa(uniqueNum) \o fileExt
    ELSE IF ToUpper(baseName) \in reservedNames THEN baseName \o <<"_">> \o fileExt
    ELSE baseName \o fileExt

StripName(f) == TrimExt(f, LastIndexAny(f, {"."}))

constructFileName(fileName, fileExt, uniqueNum) ==
    IF fileName = <<>>
    THEN IF uniqueNum > 0 THEN defaultFileName \o <<"-">> \o Itoa(uniqueNum) \o fileExt
                          ELSE defaultFileName \o fileExt
    ELSE JoinName(sanitizeFilename(StripName(Base(fileName)), maxBaseNameLen), fileExt, uniqueNum)

(***************************************************************************)
(* The remote world: what each URL answers.  parse: url.ParseRequestURI    *)
(* succeeds; dial: what client.Do can return (ok, ssrf = the ErrSSRF of    *)
(* the egress guard, neterr = any other transport error); code, ctype,     *)
(* clen, disp: the response status and headers; chunks/fin: what           *)
(* successive Body.Read calls deliver and how the body ends.               *)
(***************************************************************************)
JpegHead == <<255, 216, 255, 224, 0, 16, 74, 70>>
PngHead == <<137, 80, 78, 71, 13, 10, 26, 10>>
JunkHead == <<1, 2, 3, 4, 5, 6, 7, 8>>

Site(parse, dial, code, ctype, clen, disp, chunks, fin) ==
    [parse |-> parse, dial |-> dial, code |-> code, ctype |-> ctype, clen |-> clen,
     disp |-> disp, chunks |-> chunks, fin |-> fin]

World(u) ==
    CASE u = "jpeg"    -> Site(TRUE, {"ok"}, 200, "image/jpeg", 10, <<>>, <<JpegHead, <<9, 9>>>>, "EOF")
      [] u = "named"   -> Site(TRUE, {"ok"}, 200, "application/pdf", 8, <<"d", "/", "c", "o", "n", ".", "t", "x", "t">>, <<JpegHead>>, "EOF")
      [] u = "octet"   -> Site(TRUE, {"ok"}, 200, "application/octet-stream", 8, <<>>, <<JunkHead>>, "EOF")
      [] u = "nf"      -> Site(TRUE, {"ok"}, 404, "text/html", 0, <<>>, <<>>, "EOF")
      [] u = "bad"     -> Site(FALSE, {"ok"}, 0, "", 0, <<>>, <<>>, "EOF")
      [] u = "priv"    -> Site(TRUE, {"ssrf"}, 0, "", 0, <<>>, <<>>, "EOF")
      [] u = "down"    -> Site(TRUE, {"neterr"}, 0, "", 0, <<>>, <<>>, "EOF")
      [] u = "flaky"   -> Site(TRUE, {"ok", "neterr"}, 200, "image/jpeg", 8, <<>>, <<JpegHead>>, "EOF")
      [] u = "fake"    -> Site(TRUE, {"ok"}, 200, "image/jpeg", 8, <<>>, <<JunkHead>>, "EOF")
      [] u = "png"     -> Site(TRUE, {"ok"}, 200, "image/jpeg", 8, <<>>, <<PngHead>>, "EOF")
      [] u = "trunc"   -> Site(TRUE, {"ok"}, 200, "image/jpeg", 16, <<>>, <<JpegHead>>, "ERR")
      [] u = "short"   -> Site(TRUE, {"ok"}, 200, "image/jpeg", 16, <<>>, << <<255, 216>> >>, "ERR")
      [] u = "tiny"    -> Site(TRUE, {"ok"}, 200, "image/jpeg", 3, <<>>, << <<255, 216, 255>> >>, "EOF")
      [] u = "deny"    -> Site(TRUE, {"ok"}, 403, "text/html", 0, <<>>, <<>>, "EOF")
      [] u = "empty"   -> Site(TRUE, {"ok"}, 200, "image/jpeg", 0, <<>>, <<>>, "EOF")
      [] u = "odd"     -> Site(TRUE, {"ok"}, 520, "text/html", 0, <<>>, <<>>, "EOF")

AllURLs == {"jpeg", "named", "octet", "nf", "bad", "priv", "down", "flaky", "fake",
            "png", "trunc", "short", "tiny", "deny", "empty", "odd"}

\* the dial outcomes the requests of one batch can meet, one per URL
Dials(urls) ==
    {d \in [1..Len(urls) -> {"ok", "ssrf", "neterr"}] :
        \A i \in 1..Len(urls) : d[i] \in World(urls[i]).dial}

\* the deferred ErrorMsg fill of CheckFile and downloadFile
FillErrorMsg(file) ==
    IF file.Status # StatusOK /\ file.ErrorMsg = ""
    THEN [file EXCEPT !.ErrorMsg = StatusText(file.Status)] ELSE file

(***************************************************************************)
(* Loader.CheckFile and Loader.Check.                                      *)
(***************************************************************************)
CheckFile(uri, dial) ==
    LET w == World(uri)
        file == [ZeroFile EXCEPT !.URL = uri]
    IN FillErrorMsg(
        IF ~w.parse THEN [file EXCEPT !.Status = StatusBadRequest, !.ErrorMsg = "invalid url"]
        ELSE IF dial = "ssrf" THEN [file EXCEPT !.Status = StatusForbidden]
        ELSE IF dial = "neterr" THEN [file EXCEPT !.Status = StatusBadGateway]
        ELSE IF w.code # StatusOK THEN [file EXCEPT !.Status = w.code]
        ELSE IF w.ctype \notin AllowMIMETypes
             THEN [file EXCEPT !.Status = StatusForbidden, !.Size = w.clen,
                               !.ContentType = w.ctype, !.ErrorMsg = "file type is not allowed"]
        ELSE [file EXCEPT !.Status = StatusOK, !.Size = w.clen, !.ContentType = w.ctype,
                          !.OrigName = w.disp])

\* one record per URL, in input order, whatever order the workers finish in
Check(urls, dials) == [i \in 1..Len(urls) |-> CheckFile(urls[i], dials[i])]

(***************************************************************************)
(* Loader.downloadFile and Loader.Download.                                *)
(***************************************************************************)
RECURSIVE SumLen(_, _)
SumLen(chunks, k) == IF k = 0 THEN 0 ELSE SumLen(chunks, k - 1) + Len(chunks[k])

RECURSIVE Concat(_, _)
Concat(chunks, k) == IF k = 0 THEN <<>> ELSE Concat(chunks, k - 1) \o chunks[k]

\* the first-chunk loop: Reads until magicLen bytes are held or a Read reports the end
ReadHead(chunks, fin) ==
    LET enough == {k \in 0..Len(chunks) : SumLen(chunks, k) >= magicLen}
    IN IF enough = {}
       THEN [k |-> Len(chunks), size |-> SumLen(chunks, Len(chunks)), readErr |-> fin]
       ELSE LET k == CHOOSE x \in enough : \A y \in enough : x <= y
            IN [k |-> k, size |-> SumLen(chunks, k), readErr |-> "nil"]

ZipEntry(name, size, records) == [Name |-> name, Size |-> size, Records |-> records]

\* a downloadFile that trusts the declared type once the leading bytes are known
downloadFileTrusting(uri, uniqueNum, dial, brokenOut) ==
    LET w == World(uri)
        file == [ZeroFile EXCEPT !.URL = uri]
        head == ReadHead(w.chunks, w.fin)
        buf == Concat(w.chunks, head.k)
        magic == SubSeq(buf, 1, Min(magicLen, head.size))
        fileType == getFileTypeBySignature(magic)
        typed == [file EXCEPT !.Status = StatusOK, !.ContentType = w.ctype,
                              !.OrigName = w.disp, !.Size = head.size]
        name == constructFileName(w.disp, Extension(fileType), uniqueNum)
        total == SumLen(w.chunks, Len(w.chunks))
        Res(f, entries, err) == [file |-> FillErrorMsg(f), entries |-> entries, err |-> err]
    IN IF ~w.parse
         THEN Res([file EXCEPT !.Status = StatusBadRequest, !.ErrorMsg = "invalid url"], <<>>, "nil")
       ELSE IF dial = "ssrf" THEN Res([file EXCEPT !.Status = StatusForbidden], <<>>, "nil")
       ELSE IF dial = "neterr" THEN Res([file EXCEPT !.Status = StatusBadGateway], <<>>, "nil")
       ELSE IF w.code # StatusOK THEN Res([file EXCEPT !.Status = w.code], <<>>, "nil")
       ELSE IF w.ctype \notin AllowMIMETypes
         THEN Res([file EXCEPT !.Status = StatusForbidden, !.ContentType = w.ctype,
                               !.ErrorMsg = "file type is not allowed"], <<>>, "nil")
       ELSE IF head.readErr = "ERR"
         THEN Res([typed EXCEPT !.Status = StatusBadGateway], <<>>, "nil")
       ELSE IF fileType = NoFileType
         THEN Res([typed EXCEPT !.Status = StatusForbidden, !.ErrorMsg = "unknown file type"], <<>>, "nil")
       ELSE IF brokenOut
         THEN Res([typed EXCEPT !.Status = StatusInternalServerError, !.RealType = fileType.MIMEType,
                                !.Name = name], <<>>, "create zip entry failed")
       ELSE IF head.readErr = "nil" /\ w.fin # "EOF"
         \* the entry exists and holds what was copied before the read failed
         THEN Res([typed EXCEPT !.Status = StatusBadGateway, !.RealType = fileType.MIMEType,
                                !.Name = name, !.Size = total],
                  <<ZipEntry(name, total, <<>>)>>, "nil")
       ELSE Res([typed EXCEPT !.RealType = fileType.MIMEType, !.Name = name, !.Size = total],
                <<ZipEntry(name, total, <<>>)>>, "nil")

\* brokenOut: the output writer fails at this entry
downloadFile(uri, uniqueNum, dial, brokenOut) ==
    LET w == World(uri)
        file == [ZeroFile EXCEPT !.URL = uri]
        head == ReadHead(w.chunks, w.fin)
        buf == Concat(w.chunks, head.k)
        magic == SubSeq(buf, 1, Min(magicLen, head.size))
        fileType == getFileTypeBySignature(magic)
        typed == [file EXCEPT !.Status = StatusOK, !.ContentType = w.ctype,
                              !.OrigName = w.disp, !.Size = head.size]
        name == constructFileName(w.disp, Extension(fileType), uniqueNum)
        total == SumLen(w.chunks, Len(w.chunks))
        Res(f, entries, err) == [file |-> FillErrorMsg(f), entries |-> entries, err |-> err]
    IN IF ~w.parse
         THEN Res([file EXCEPT !.Status = StatusBadRequest, !.ErrorMsg = "invalid url"], <<>>, "nil")
       ELSE IF dial = "ssrf" THEN Res([file EXCEPT !.Status = StatusForbidden], <<>>, "nil")
       ELSE IF dial = "neterr" THEN Res([file EXCEPT !.Status = StatusBadGateway], <<>>, "nil")
       ELSE IF w.code # StatusOK THEN Res([file EXCEPT !.Status = w.code], <<>>, "nil")
       ELSE IF w.ctype \notin AllowMIMETypes
         THEN Res([file EXCEPT !.Status = StatusForbidden, !.ContentType = w.ctype,
                               !.ErrorMsg = "file type is not allowed"], <<>>, "nil")
       ELSE IF head.readErr = "ERR"
         THEN Res([typed EXCEPT !.Status = StatusBadGateway], <<>>, "nil")
       ELSE IF fileType = NoFileType
         THEN Res([typed EXCEPT !.Status = StatusForbidden, !.ErrorMsg = "unknown file type"], <<>>, "nil")
       ELSE IF fileType.MIMEType \notin AllowMIMETypes
         THEN Res([typed EXCEPT !.Status = StatusForbidden, !.RealType = fileType.MIMEType,
                                !.ErrorMsg = "file type is not allowed"], <<>>, "nil")
       ELSE IF brokenOut
         THEN Res([typed EXCEPT !.Status = StatusInternalServerError, !.RealType = fileType.MIMEType,
                                !.Name = name], <<>>, "create zip entry failed")
       ELSE IF head.readErr = "nil" /\ w.fin # "EOF"
         \* the entry exists and holds what was copied before the read failed
         THEN Res([typed EXCEPT !.Status = StatusBadGateway, !.RealType = fileType.MIMEType,
                                !.Name = name, !.Size = total],
                  <<ZipEntry(name, total, <<>>)>>, "nil")
       ELSE Res([typed EXCEPT !.RealType = fileType.MIMEType, !.Name = name, !.Size = total],
                <<ZipEntry(name, total, <<>>)>>, "nil")

statusName == <<"status.json">>

\* a writeStatus that leaves status.json out when no file was downloaded
writeStatusIfAny(files) ==
    IF \E i \in 1..Len(files) : files[i].Status = StatusOK
    THEN <<ZipEntry(statusName, 0, files)>> ELSE <<>>

\* writeStatus: the status.json entry listing every record
writeStatus(files) == <<ZipEntry(statusName, 0, files)>>

\* what Download returns at a fatal error r.err of the file just handled
Fatal(files, zip, r) ==
    [files |-> Append(files, r.file), zip |-> zip \o r.entries, err |-> r.err]

\* what Download returns after the last URL; failFrom # 0: status.json cannot be created
AfterLast(failFrom, files, zip) ==
    IF failFrom # 0
    THEN [files |-> files, zip |-> zip, err |-> "create zip entry failed"]
    ELSE [files |-> files, zip |-> zip \o writeStatus(files), err |-> "nil"]

\* the file of URL i as downloadFile handles it
FileAt(urls, dials, failFrom, i) ==
    downloadFile(urls[i], i, dials[i], failFrom # 0 /\ i >= failFrom)

\* a loop that gives up at the first file that failed
RECURSIVE DownloadLoopStopping(_, _, _, _, _, _)
StoppingStep(urls, dials, failFrom, i, files, zip, r) ==
    IF r.err # "nil" THEN Fatal(files, zip, r)
    ELSE IF r.file.Status # StatusOK
    THEN [files |-> Append(files, r.file), zip |-> zip \o r.entries, err |-> "download failed"]
    ELSE DownloadLoopStopping(urls, dials, failFrom, i + 1, Append(files, r.file),
                              zip \o r.entries)

DownloadLoopStopping(urls, dials, failFrom, i, files, zip) ==
    IF i > Len(urls) THEN AfterLast(failFrom, files, zip)
    ELSE StoppingStep(urls, dials, failFrom, i, files, zip, FileAt(urls, dials, failFrom, i))

\* a loop that goes on to the next URL after the output failed
RECURSIVE DownloadLoopContinuing(_, _, _, _, _, _)
ContinuingStep(urls, dials, failFrom, i, files, zip, r) ==
    DownloadLoopContinuing(urls, dials, failFrom, i + 1, Append(files, r.file),
                           zip \o r.entries)

DownloadLoopContinuing(urls, dials, failFrom, i, files, zip) ==
    IF i > Len(urls) THEN AfterLast(failFrom, files, zip)
    ELSE ContinuingStep(urls, dials, failFrom, i, files, zip, FileAt(urls, dials, failFrom, i))

\* the loop of Download from URL i on; failFrom = 0: the output never fails,
\* failFrom = k > 0: every entry from URL k on fails to be created
RECURSIVE DownloadLoop(_, _, _, _, _, _)
\* the body of the loop once downloadFile has returned r
LoopStep(urls, dials, failFrom, i, files, zip, r) ==
    IF r.err # "nil" THEN Fatal(files, zip, r)
    ELSE DownloadLoop(urls, dials, failFrom, i + 1, Append(files, r.file), zip \o r.entries)

DownloadLoop(urls, dials, failFrom, i, files, zip) ==
    IF i > Len(urls) THEN AfterLast(failFrom, files, zip)
    ELSE LoopStep(urls, dials, failFrom, i, files, zip, FileAt(urls, dials, failFrom, i))

\* defer zipWriter.Close(): the writer is closed on every way out of Download
Closing(r) == [files |-> r.files, zip |-> r.zip, err |-> r.err, closed |-> TRUE]

Download(urls, dials, failFrom) == Closing(DownloadLoop(urls, dials, failFrom, 1, <<>>, <<>>))

(***************************************************************************)
(* Memstor: the operations as functions of the store.  Each yields the     *)
(* new task map and the error returned.                                    *)
(***************************************************************************)
\* sync.RWMutex
NoLock == [readers |-> 0, writer |-> FALSE]
RLock(m) == [m EXCEPT !.readers = @ + 1]
Lock(m) == [m EXCEPT !.writer = TRUE]
Unlock(m) == [m EXCEPT !.writer = FALSE]

\* a read lock that is not given back when the method returns
RUnlockNever(m) == m

RUnlock(m) == [m EXCEPT !.readers = @ - 1]

\* m.mu.RLock(); defer m.mu.RUnlock(): the method runs once no writer holds the lock
WithRLock == ~mu.writer /\ mu' = RUnlock(RLock(mu))

\* m.mu.Lock(); defer m.mu.Unlock(): the method runs once nobody holds the lock
WithLock == ~mu.writer /\ mu.readers = 0 /\ mu' = Unlock(Lock(mu))

Live == DOMAIN tasks

Put(ts, id, task) == [t \in (DOMAIN ts) \cup {id} |-> IF t = id THEN task ELSE ts[t]]

Remove(ts, ids) == [t \in (DOMAIN ts) \ ids |-> ts[t]]

\* a CreateTask that lets the store grow one task past MaxTotal
StorCreateTaskLax(id) ==
    IF cancelled THEN [tasks |-> tasks, id |-> 0, err |-> "ErrServerCancelled"]
    ELSE IF cfg.MaxTotal >= 0 /\ Cardinality(DOMAIN tasks) > cfg.MaxTotal
    THEN [tasks |-> tasks, id |-> 0, err |-> "ErrServerBusy"]
    ELSE [tasks |-> Put(tasks, id, [Files |-> <<>>, ExpiresAt |-> now + cfg.TaskTTL]),
          id |-> id, err |-> "nil"]

\* a CreateTask that takes MaxTotal = 0 for "no limit"
StorCreateTaskZeroUnlimited(id) ==
    IF cancelled THEN [tasks |-> tasks, id |-> 0, err |-> "ErrServerCancelled"]
    ELSE IF cfg.MaxTotal > 0 /\ Cardinality(DOMAIN tasks) >= cfg.MaxTotal
    THEN [tasks |-> tasks, id |-> 0, err |-> "ErrServerBusy"]
    ELSE [tasks |-> Put(tasks, id, [Files |-> <<>>, ExpiresAt |-> now + cfg.TaskTTL]),
          id |-> id, err |-> "nil"]

\* Memstor.CreateTask with rand.Int64() = id
StorCreateTask(id) ==
    IF cancelled THEN [tasks |-> tasks, id |-> 0, err |-> "ErrServerCancelled"]
    ELSE IF cfg.MaxTotal >= 0 /\ Cardinality(Live) >= cfg.MaxTotal
    THEN [tasks |-> tasks, id |-> 0, err |-> "ErrServerBusy"]
    ELSE [tasks |-> Put(tasks, id, [Files |-> <<>>, ExpiresAt |-> now + cfg.TaskTTL]),
          id |-> id, err |-> "nil"]

\* a DeleteTask that reports a missing task
StorDeleteTaskStrict(taskID) ==
    IF cancelled THEN [tasks |-> tasks, err |-> "ErrServerCancelled"]
    ELSE IF taskID \notin DOMAIN tasks THEN [tasks |-> tasks, err |-> "ErrTaskNotFound"]
    ELSE [tasks |-> Remove(tasks, {taskID}), err |-> "nil"]

StorDeleteTask(taskID) ==
    IF cancelled THEN [tasks |-> tasks, err |-> "ErrServerCancelled"]
    ELSE [tasks |-> Remove(tasks, {taskID}), err |-> "nil"]

\* an insertion that leaves the ID at its zero value
NewFileIDZero(files) == 0

\* the file ID given to a file on insertion: fresh within its task
NewFileID(files) == Len(files) + 1

\* an AddFileToTask that accepts one file past MaxFiles
StorAddFileToTaskLax(taskID, url) ==
    IF cancelled THEN [tasks |-> tasks, err |-> "ErrServerCancelled"]
    ELSE IF taskID \notin DOMAIN tasks THEN [tasks |-> tasks, err |-> "ErrTaskNotFound"]
    ELSE IF cfg.MaxFiles >= 0 /\ Len(tasks[taskID].Files) > cfg.MaxFiles
    THEN [tasks |-> tasks, err |-> "ErrMaxFilesExceeded"]
    ELSE LET fs == tasks[taskID].Files
             file == [ZeroFile EXCEPT !.ID = NewFileID(fs), !.URL = url]
         IN [tasks |-> [tasks EXCEPT ![taskID].Files = Append(fs, file)], err |-> "nil"]

\* an AddFileToTask that puts the new file in front of the list
StorAddFileToTaskFront(taskID, url) ==
    IF cancelled THEN [tasks |-> tasks, err |-> "ErrServerCancelled"]
    ELSE IF taskID \notin DOMAIN tasks THEN [tasks |-> tasks, err |-> "ErrTaskNotFound"]
    ELSE IF cfg.MaxFiles >= 0 /\ Len(tasks[taskID].Files) >= cfg.MaxFiles
    THEN [tasks |-> tasks, err |-> "ErrMaxFilesExceeded"]
    ELSE LET fs == tasks[taskID].Files
             file == [ZeroFile EXCEPT !.ID = NewFileID(fs), !.URL = url]
         IN [tasks |-> [tasks EXCEPT ![taskID].Files = <<file>> \o fs], err |-> "nil"]

StorAddFileToTask(taskID, url) ==
    IF cancelled THEN [tasks |-> tasks, err |-> "ErrServerCancelled"]
    ELSE IF taskID \notin Live THEN [tasks |-> tasks, err |-> "ErrTaskNotFound"]
    ELSE IF cfg.MaxFiles >= 0 /\ Len(tasks[taskID].Files) >= cfg.MaxFiles
    THEN [tasks |-> tasks, err |-> "ErrMaxFilesExceeded"]
    ELSE LET fs == tasks[taskID].Files
             file == [ZeroFile EXCEPT !.ID = NewFileID(fs), !.URL = url]
         IN [tasks |-> [tasks EXCEPT ![taskID].Files = Append(fs, file)], err |-> "nil"]

\* a GetTaskFiles that does not look at cancelled
StorGetTaskFilesUnchecked(taskID) ==
    IF taskID \notin DOMAIN tasks THEN [files |-> <<>>, err |-> "ErrTaskNotFound"]
    ELSE [files |-> tasks[taskID].Files, err |-> "nil"]

\* a GetTaskFiles that does not see a task past its ExpiresAt
StorGetTaskFilesUnexpired(taskID) ==
    IF cancelled THEN [files |-> <<>>, err |-> "ErrServerCancelled"]
    ELSE IF taskID \notin DOMAIN tasks \/ tasks[taskID].ExpiresAt < now
    THEN [files |-> <<>>, err |-> "ErrTaskNotFound"]
    ELSE [files |-> tasks[taskID].Files, err |-> "nil"]

StorGetTaskFiles(taskID) ==
    IF cancelled THEN [files |-> <<>>, err |-> "ErrServerCancelled"]
    ELSE IF taskID \notin Live THEN [files |-> <<>>, err |-> "ErrTaskNotFound"]
    ELSE [files |-> tasks[taskID].Files, err |-> "nil"]

\* every stored file whose ID is carried by a record of newFiles is overwritten by it
Overwrite(stored, newFiles) ==
    [i \in 1..Len(stored) |->
        LET js == {j \in 1..Len(newFiles) : newFiles[j].ID = stored[i].ID}
        IN IF js = {} THEN stored[i] ELSE newFiles[CHOOSE j \in js : \A k \in js : k <= j]]

\* an UpdateTaskFiles that stores the records under the ID when the task is gone
StorUpdateTaskFilesUpsert(taskID, newFiles) ==
    IF cancelled THEN [tasks |-> tasks, files |-> <<>>, err |-> "ErrServerCancelled"]
    ELSE IF taskID \notin Live
    THEN [tasks |-> Put(tasks, taskID, [Files |-> newFiles, ExpiresAt |-> now + cfg.TaskTTL]),
          files |-> newFiles, err |-> "nil"]
    ELSE LET fs == Overwrite(tasks[taskID].Files, newFiles)
         IN [tasks |-> [tasks EXCEPT ![taskID].Files = fs], files |-> fs, err |-> "nil"]

StorUpdateTaskFiles(taskID, newFiles) ==
    IF cancelled THEN [tasks |-> tasks, files |-> <<>>, err |-> "ErrServerCancelled"]
    ELSE IF taskID \notin Live THEN [tasks |-> tasks, files |-> <<>>, err |-> "ErrTaskNotFound"]
    ELSE LET fs == Overwrite(tasks[taskID].Files, newFiles)
         IN [tasks |-> [tasks EXCEPT ![taskID].Files = fs], files |-> fs, err |-> "nil"]

(***************************************************************************)
(* Manager: selection of URLs, ID restore, the download-slot gate.         *)
(***************************************************************************)
RECURSIVE Pick(_, _, _)
Pick(files, statuses, i) ==
    IF i > Len(files) THEN <<>>
    ELSE (IF files[i].Status \in statuses THEN <<files[i]>> ELSE <<>>)
         \o Pick(files, statuses, i + 1)

URLsOf(files) == [i \in 1..Len(files) |-> files[i].URL]
IDsOf(files) == [i \in 1..Len(files) |-> files[i].ID]

\* a selection that probes a file once and never again
StatusSelectionOnce(files) == Pick(files, {0}, 1)

\* a selection that also takes the files whose last answer was BadGateway
DownloadSelectionRetrying(files) == Pick(files, {0, StatusOK, StatusBadGateway}, 1)

\* GetTaskStatus probes what was never probed or answered BadGateway last time
StatusSelection(files) == Pick(files, {0, StatusBadGateway}, 1)

\* ProcessTask downloads what was never probed or answered OK last time
DownloadSelection(files) == Pick(files, {0, StatusOK}, 1)

\* for i, id := range ids { files[i].ID = id }
RestoreIDs(files, ids) ==
    [i \in 1..Len(files) |-> IF i <= Len(ids) THEN [files[i] EXCEPT !.ID = ids[i]] ELSE files[i]]

\* a gate that admits a caller when every slot is taken
getDownloadSlotLax ==
    IF active <= cfg.MaxActive THEN [active |-> active + 1, ok |-> TRUE]
                               ELSE [active |-> active, ok |-> FALSE]

\* a gate that counts the callers it turns away
getDownloadSlotCounting ==
    IF active < cfg.MaxActive THEN [active |-> active + 1, ok |-> TRUE]
                              ELSE [active |-> active + 1, ok |-> FALSE]

\* a release that gives nothing back
freeDownloadSlotNoop == active

\* getDownloadSlot: the new counter and whether a slot was taken
getDownloadSlot ==
    IF active < cfg.MaxActive THEN [active |-> active + 1, ok |-> TRUE]
                              ELSE [active |-> active, ok |-> FALSE]

freeDownloadSlot == active - 1

(***************************************************************************)
(* HTTP boundary.                                                          *)
(***************************************************************************)
numberOfFilesToShowArchiveURL == 3

\* helper.GetID: the id is accepted only when > 0
GetIDOk(id) == id > 0

mapError(err) ==
    CASE err = "ErrTaskNotFound" -> StatusNotFound
      [] err = "ErrMaxFilesExceeded" -> StatusConflict
      [] err = "ErrServerBusy" -> StatusServiceUnavailable
      [] err = "ErrServerCancelled" -> StatusServiceUnavailable
      [] OTHER -> StatusInternalServerError

\* fmt.Sprintf("%s/task_%d.zip", filesBasePath, taskID)
ArchiveURL(taskID) == <<"filesBasePath", "/task_", taskID, ".zip">>

\* a response that names the archive only for a task of more than the threshold
StatusBodyAbove(taskID, files) ==
    [files |-> Len(files),
     archive |-> IF Len(files) > numberOfFilesToShowArchiveURL THEN ArchiveURL(taskID) ELSE <<>>]

\* getTaskStatusResponse: the number of files of the task and the archive
\* field, <<>> when omitted
StatusBody(taskID, files) ==
    [files |-> Len(files),
     archive |-> IF Len(files) >= numberOfFilesToShowArchiveURL THEN ArchiveURL(taskID) ELSE <<>>]

NoResp == [code |-> 0, ctype |-> ""]
ErrorResp(code) == [code |-> code, ctype |-> "text/plain"]
NoReq == [kind |-> "none", id |-> 0]
NoCall == [urls |-> <<>>, running |-> {}, closed |-> FALSE, failFrom |-> 0]

SlotHolders == {p \in Procs : pc[p] \in {"pt_read", "pt_download"}}

(***************************************************************************)
(* One-step handlers: POST /tasks, DELETE /tasks/{id}, POST /tasks/{id}/files *)
(***************************************************************************)
CreateTask ==
    \E id \in TaskIDs :
        /\ tasks' = StorCreateTask(id).tasks
        /\ WithLock
        /\ UNCHANGED <<egress, fname, heap, cfg, run, cancelled, active, now, sweep, pc, req, snap, out, resp, ret, call>>

DeleteTask(taskID) ==
    /\ tasks' = (IF GetIDOk(taskID) THEN StorDeleteTask(taskID).tasks ELSE tasks)
    /\ (IF GetIDOk(taskID) THEN WithLock ELSE UNCHANGED mu)
    /\ UNCHANGED <<egress, fname, heap, cfg, run, cancelled, active, now, sweep, pc, req, snap, out, resp, ret, call>>

AddFileToTask(taskID, url) ==
    /\ taskID \in Live => Len(tasks[taskID].Files) < MaxLen \/ cfg.MaxFiles >= 0
    /\ tasks' = (IF GetIDOk(taskID) THEN StorAddFileToTask(taskID, url).tasks ELSE tasks)
    /\ (IF GetIDOk(taskID) THEN WithLock ELSE UNCHANGED mu)
    /\ UNCHANGED <<egress, fname, heap, cfg, run, cancelled, active, now, sweep, pc, req, snap, out, resp, ret, call>>

\* Memstor.Cancel
Cancel ==
    /\ ~cancelled
    /\ cancelled' = TRUE
    /\ tasks' = Remove(tasks, Live)
    /\ WithLock
    /\ UNCHANGED <<egress, fname, heap, cfg, run, active, now, sweep, pc, req, snap, out, resp, ret, call>>

(***************************************************************************)
(* GET /tasks/{id} and GET /tasks/{id}/archive.  Both begin with           *)
(* Manager.GetTaskStatus; the archive route goes on to ProcessTask.        *)
(***************************************************************************)
\* the urls Manager.GetTaskStatus collects from the files it read, none when the read failed
StatusURLs(taskID) ==
    IF GetIDOk(taskID) /\ StorGetTaskFiles(taskID).err = "nil"
    THEN URLsOf(StatusSelection(StorGetTaskFiles(taskID).files)) ELSE <<>>

\* the request arrives; Manager.GetTaskStatus reads the files
Begin(p, kind, taskID) ==
    /\ p \in run.clients
    /\ pc[p] = "idle"
    /\ req' = [req EXCEPT ![p] = [kind |-> kind, id |-> taskID]]
    /\ out' = [out EXCEPT ![p] = <<>>]
    /\ ret' = [ret EXCEPT ![p] = IF GetIDOk(taskID) THEN StorGetTaskFiles(taskID).err ELSE ""]
    /\ IF ~GetIDOk(taskID)
       THEN /\ resp' = [resp EXCEPT ![p] = ErrorResp(StatusBadRequest)]
            /\ UNCHANGED <<pc, snap>>
       ELSE LET r == StorGetTaskFiles(taskID)
            IN IF r.err # "nil"
               THEN /\ resp' = [resp EXCEPT ![p] = ErrorResp(mapError(r.err))]
                    /\ UNCHANGED <<pc, snap>>
               ELSE /\ resp' = [resp EXCEPT ![p] = NoResp]
                    /\ snap' = [snap EXCEPT ![p] = r.files]
                    /\ pc' = [pc EXCEPT ![p] = "gs_loader"]
    /\ call' = [call EXCEPT ![p] = [NoCall EXCEPT !.urls = StatusURLs(taskID)]]
    /\ (IF GetIDOk(taskID) THEN WithRLock ELSE UNCHANGED mu)
    /\ UNCHANGED <<egress, fname, heap, cfg, run, tasks, cancelled, active, now, sweep>>

GetTaskStatus(p, taskID) == Begin(p, "status", taskID)

Archive(p, taskID) == Begin(p, "archive", taskID)

\* the records Manager.GetTaskStatus hands to UpdateTaskFiles, given the dial outcomes
StatusWriteBack(files, urls, dials) ==
    IF Len(urls) > 0 THEN RestoreIDs(Check(urls, dials), IDsOf(StatusSelection(files)))
    ELSE RestoreIDs(files, IDsOf(StatusSelection(files)))

\* Loader.Check returns and Manager.GetTaskStatus writes back
GetTaskStatusFinish(p) ==
    /\ pc[p] = "gs_loader"
    /\ \E dials \in Dials(call[p].urls) :
        LET u == StorUpdateTaskFiles(req[p].id, StatusWriteBack(snap[p], call[p].urls, dials))
        IN /\ tasks' = u.tasks
           /\ ret' = [ret EXCEPT ![p] = u.err]
           /\ IF u.err # "nil"
              THEN /\ resp' = [resp EXCEPT ![p] = ErrorResp(mapError(u.err))]
                   /\ pc' = [pc EXCEPT ![p] = "idle"]
              ELSE IF req[p].kind = "status"
              THEN /\ resp' = [resp EXCEPT ![p] =
                                 [code |-> StatusOK, ctype |-> "application/json",
                                  body |-> StatusBody(req[p].id, u.files)]]
                   /\ pc' = [pc EXCEPT ![p] = "idle"]
              ELSE /\ resp' = [resp EXCEPT ![p] =
                                 [code |-> StatusOK, ctype |-> "application/zip"]]
                   /\ pc' = [pc EXCEPT ![p] = "pt_slot"]
    /\ snap' = [snap EXCEPT ![p] = <<>>]
    /\ call' = [call EXCEPT ![p] = NoCall]
    /\ WithLock
    /\ UNCHANGED <<egress, fname, heap, cfg, run, cancelled, active, now, sweep, req, out>>

\* a ProcessTask that looks the task up before it goes to the gate
ProcessTaskSlotAfterLookup(p) ==
    /\ pc[p] = "pt_slot"
    /\ IF StorGetTaskFiles(req[p].id).err # "nil"
       THEN /\ pc' = [pc EXCEPT ![p] = "idle"]
            /\ ret' = [ret EXCEPT ![p] = StorGetTaskFiles(req[p].id).err]
            /\ UNCHANGED active
       ELSE /\ active' = getDownloadSlot.active
            /\ IF getDownloadSlot.ok
               THEN /\ pc' = [pc EXCEPT ![p] = "pt_read"]
                    /\ UNCHANGED ret
               ELSE /\ pc' = [pc EXCEPT ![p] = "idle"]
                    /\ ret' = [ret EXCEPT ![p] = "ErrServerBusy"]
    /\ UNCHANGED <<mu, egress, fname, heap, cfg, run, tasks, cancelled, now, sweep, req, snap, out, resp, call>>

\* Manager.ProcessTask: take a download slot or return ErrServerBusy
ProcessTaskSlot(p) ==
    /\ pc[p] = "pt_slot"
    /\ active' = getDownloadSlot.active
    /\ IF getDownloadSlot.ok
       THEN /\ pc' = [pc EXCEPT ![p] = "pt_read"]
            /\ UNCHANGED ret
       ELSE /\ pc' = [pc EXCEPT ![p] = "idle"]
            /\ ret' = [ret EXCEPT ![p] = "ErrServerBusy"]
    /\ UNCHANGED <<mu, egress, fname, heap, cfg, run, tasks, cancelled, now, sweep, req, snap, out, resp, call>>

\* Manager.ProcessTask after the delay: read the files
ProcessTaskRead(p) ==
    /\ pc[p] = "pt_read"
    /\ LET r == StorGetTaskFiles(req[p].id)
       IN IF r.err # "nil"
          THEN /\ ret' = [ret EXCEPT ![p] = r.err]
               /\ active' = freeDownloadSlot
               /\ pc' = [pc EXCEPT ![p] = "idle"]
               /\ UNCHANGED <<snap, call>>
          ELSE /\ snap' = [snap EXCEPT ![p] = r.files]
               /\ call' = [call EXCEPT ![p].urls = URLsOf(DownloadSelection(r.files))]
               /\ pc' = [pc EXCEPT ![p] = "pt_download"]
               /\ UNCHANGED <<ret, active>>
    /\ WithRLock
    /\ UNCHANGED <<egress, fname, heap, cfg, run, tasks, cancelled, now, sweep, req, out, resp>>

\* a ProcessTask that stores the records whatever Download returned
ProcessTaskWriteBackAlways(p, sel, d) ==
    /\ out' = [out EXCEPT ![p] = d.zip]
    /\ ret' = [ret EXCEPT ![p] = d.err]
    /\ call' = [call EXCEPT ![p] = [NoCall EXCEPT !.closed = d.closed]]
    /\ tasks' = StorUpdateTaskFiles(req[p].id, RestoreIDs(d.files, IDsOf(sel))).tasks
    /\ WithLock

\* Manager.ProcessTask once Loader.Download has returned d for the selection sel
ProcessTaskWriteBack(p, sel, d) ==
    /\ out' = [out EXCEPT ![p] = d.zip]
    /\ ret' = [ret EXCEPT ![p] = d.err]
    /\ call' = [call EXCEPT ![p] = [NoCall EXCEPT !.closed = d.closed]]
    /\ tasks' = (IF d.err # "nil" THEN tasks
                 ELSE StorUpdateTaskFiles(req[p].id, RestoreIDs(d.files, IDsOf(sel))).tasks)
    /\ (IF d.err # "nil" THEN UNCHANGED mu ELSE WithLock)

\* Loader.Download returns; Manager.ProcessTask writes back and frees the slot
ProcessTaskFinish(p) ==
    /\ pc[p] = "pt_download"
    /\ \E dials \in Dials(call[p].urls), failFrom \in 0..(Len(call[p].urls) + 1) :
            ProcessTaskWriteBack(p, DownloadSelection(snap[p]),
                                 Download(call[p].urls, dials, failFrom))
    /\ active' = freeDownloadSlot
    /\ pc' = [pc EXCEPT ![p] = "idle"]
    /\ snap' = [snap EXCEPT ![p] = <<>>]
    /\ UNCHANGED <<egress, fname, heap, cfg, run, cancelled, now, sweep, req, resp>>

(***************************************************************************)
(* The sweeper goroutine and the clock.                                    *)
(***************************************************************************)
\* a task whose ExpiresAt lies more than a clock unit back
isExpiredLate(task) == task.ExpiresAt + 1 < now

\* task.ExpiresAt.Before(now)
isExpired(task) == task.ExpiresAt < now

\* tm.Reset(cleanTimeout): when the timer fires next
timerReset == now + cleanTimeout

\* the timer fired and the store is not cancelled: cleanExpiredTasks, first
\* phase (read lock): collect the expired ids; with none the sweep is over
SweepSnapshot ==
    /\ sweep.pc = "wait"
    /\ ~cancelled
    /\ now >= sweep.due
    /\ LET expired == {t \in Live : isExpired(tasks[t])}
       IN sweep' = IF expired = {}
                   THEN [pc |-> "wait", expiredTasks |-> {}, due |-> timerReset]
                   ELSE [pc |-> "delete", expiredTasks |-> expired, due |-> sweep.due]
    /\ WithRLock
    /\ UNCHANGED <<egress, fname, heap, cfg, run, tasks, cancelled, active, now, pc, req, snap, out, resp, ret, call>>

\* cleanExpiredTasks, second phase (write lock): delete them
SweepDelete ==
    /\ sweep.pc = "delete"
    /\ tasks' = Remove(tasks, sweep.expiredTasks)
    /\ sweep' = [pc |-> "wait", expiredTasks |-> {}, due |-> timerReset]
    /\ WithLock
    /\ UNCHANGED <<egress, fname, heap, cfg, run, cancelled, active, now, pc, req, snap, out, resp, ret, call>>

\* the clock advances; the sweeper runs when its timer fires, and a sweep is
\* over within the clock unit it began in
Tick ==
    /\ now < run.horizon
    /\ sweep.pc = "wait"
    /\ cancelled \/ now < sweep.due
    /\ now' = now + 1
    /\ UNCHANGED <<mu, egress, fname, heap, cfg, run, tasks, cancelled, active, sweep, pc, req, snap, out, resp, ret, call>>

(***************************************************************************)
(* Specification.                                                          *)
(***************************************************************************)
\* a configuration together with the environment it runs in
Scenario(maxTotal, maxActive, maxFiles, ttl, menu, clients, horizon) ==
    [cfg |-> [MaxTotal |-> maxTotal, MaxActive |-> maxActive, MaxFiles |-> maxFiles,
              TaskTTL |-> ttl],
     run |-> [menu |-> menu, clients |-> clients, horizon |-> horizon]]

Scenarios ==
    { \* one client, the clock and the sweeper at work
      Scenario(1, 1, 2, 0, {"flaky", "nf"}, {1}, cleanTimeout),
      Scenario(2, 1, 1, 0, {"flaky"}, {1}, cleanTimeout),
      \* tasks that expire at once, the clock running over two sweeps
      Scenario(2, 0, 0, 0, {"nf"}, {1}, MaxTime),
      \* clients racing on one store, no task old enough to expire
      Scenario(1, 1, 2, 1, {"fake"}, Clients, 0),
      Scenario(2, NClients, 1, 1, {"flaky"}, Clients, 0),
      \* no limits on tasks and files, downloads switched off
      Scenario(-1, 0, -1, 1, {"flaky"}, {1}, 0),
      \* task creation switched off
      Scenario(0, 1, 1, 1, {"nf"}, {1}, 0),
      \* tasks that live one clock unit, the sweeper at work
      Scenario(1, 0, 1, 1, {"nf"}, {1}, cleanTimeout) }

\* no dial and no file name in hand
NoDial == [pc |-> "none"]
NoName == [pc |-> "none"]

InitWith(c, r) ==
    /\ cfg = c
    /\ run = r
    /\ cancelled = FALSE
    /\ active = 0
    /\ now = 0
    /\ sweep = [pc |-> "wait", expiredTasks |-> {}, due |-> cleanTimeout]
    /\ pc = [p \in Procs |-> "idle"]
    /\ req = [p \in Procs |-> NoReq]
    /\ snap = [p \in Procs |-> <<>>]
    /\ out = [p \in Procs |-> <<>>]
    /\ resp = [p \in Procs |-> NoResp]
    /\ ret = [p \in Procs |-> ""]

NoCalls == [p \in Procs |-> NoCall]

Init == \E s \in Scenarios : InitWith(s.cfg, s.run) /\ tasks = <<>> /\ call = NoCalls /\ egress = NoDial /\ fname = NoName /\ heap = <<>> /\ mu = NoLock

Next ==
    \/ CreateTask
    \/ \E t \in TaskIDs : DeleteTask(t)
    \/ \E t \in TaskIDs, u \in run.menu : AddFileToTask(t, u)
    \/ Cancel
    \/ \E p \in Procs, t \in TaskIDs : GetTaskStatus(p, t)
    \/ \E p \in Procs, t \in TaskIDs : Archive(p, t)
    \/ \E p \in Procs : GetTaskStatusFinish(p)
    \/ \E p \in Procs : ProcessTaskSlot(p)
    \/ \E p \in Procs : ProcessTaskRead(p)
    \/ \E p \in Procs : ProcessTaskFinish(p)
    \/ SweepSnapshot
    \/ SweepDelete
    \/ Tick

Spec == Init /\ [][Next]_vars

(***************************************************************************)
(* Archive requests racing with the store operations that make             *)
(* ProcessTask fail.  Every started Manager.ProcessTask keeps running: the *)
(* store answers and the Loader call terminates.                           *)
(***************************************************************************)
InitFair ==
    /\ InitWith(Scenario(1, 1, 1, 1, {"nf"}, Clients, 0).cfg,
                Scenario(1, 1, 1, 1, {"nf"}, Clients, 0).run)
    /\ tasks = <<>>
    /\ call = NoCalls /\ egress = NoDial /\ fname = NoName /\ heap = <<>> /\ mu = NoLock

NextFair ==
    \/ CreateTask
    \/ \E t \in TaskIDs : DeleteTask(t)
    \/ \E t \in TaskIDs, u \in run.menu : AddFileToTask(t, u)
    \/ Cancel
    \/ \E p \in Procs, t \in TaskIDs : Archive(p, t)
    \/ \E p \in Procs : GetTaskStatusFinish(p)
    \/ \E p \in Procs : ProcessTaskSlot(p)
    \/ \E p \in Procs : ProcessTaskRead(p)
    \/ \E p \in Procs : ProcessTaskFinish(p)

FairSpec ==
    /\ InitFair
    /\ [][NextFair]_vars
    /\ \A p \in Clients : WF_vars(ProcessTaskRead(p)) /\ WF_vars(ProcessTaskFinish(p))

(***************************************************************************)
(* A lone client asks for the status and the archive of one task that      *)
(* already holds its files.                                                *)
(***************************************************************************)
LoaderURLs == {"jpeg", "octet", "nf", "trunc", "named", "flaky"}

\* the files of a task after AddFileToTask was called once per URL
Added(urls) == [i \in 1..Len(urls) |-> [ZeroFile EXCEPT !.ID = i, !.URL = urls[i]]]

Batches == UNION {[1..n -> LoaderURLs] : n \in 0..MaxBatch}

InitLoader ==
    \E urls \in Batches :
        /\ InitWith(Scenario(1, 1, MaxBatch, 1, LoaderURLs, {1}, 0).cfg,
                    Scenario(1, 1, MaxBatch, 1, LoaderURLs, {1}, 0).run)
        /\ tasks = Put(<<>>, 1, [Files |-> Added(urls), ExpiresAt |-> 1])
        /\ call = NoCalls /\ egress = NoDial /\ fname = NoName /\ heap = <<>> /\ mu = NoLock

NextLoader ==
    \/ \E p \in Procs : GetTaskStatus(p, 1)
    \/ \E p \in Procs : Archive(p, 1)
    \/ \E p \in Procs : GetTaskStatusFinish(p)
    \/ \E p \in Procs : ProcessTaskSlot(p)
    \/ \E p \in Procs : ProcessTaskRead(p)
    \/ \E p \in Procs : ProcessTaskFinish(p)

SpecLoader == InitLoader /\ [][NextLoader]_vars

(***************************************************************************)
(* The archive burst: every request goroutine asks once for the archive of *)
(* its own task, one more goroutine than there are download slots.         *)
(***************************************************************************)
InitBurst ==
    \E urls \in {<<>>, <<"jpeg">>} :
        /\ InitWith(Scenario(-1, NProcs - 1, 1, 1, {"jpeg"}, Procs, 0).cfg,
                    Scenario(-1, NProcs - 1, 1, 1, {"jpeg"}, Procs, 0).run)
        /\ tasks = [t \in Procs |-> [Files |-> Added(urls), ExpiresAt |-> 1]]
        /\ call = NoCalls /\ egress = NoDial /\ fname = NoName /\ heap = <<>> /\ mu = NoLock

NextBurst ==
    \/ \E p \in Procs : req[p] = NoReq /\ Archive(p, p)
    \/ \E p \in Procs : GetTaskStatusFinish(p)
    \/ \E p \in Procs : ProcessTaskSlot(p)
    \/ \E p \in Procs : ProcessTaskRead(p)
    \/ \E p \in Procs : ProcessTaskFinish(p)

SpecBurst == InitBurst /\ [][NextBurst]_vars

(***************************************************************************)
(* The Loader called on a list of URLs, as cmd/zipget calls it: Check with *)
(* its worker goroutines, and Download into an output that may fail.       *)
(***************************************************************************)
CallURLs == {"jpeg", "bad", "priv", "down", "nf", "octet", "fake", "png", "trunc", "short",
             "named", "deny", "empty", "odd"}

Calls == UNION {[1..n -> CallURLs] : n \in 0..MaxBatch}

\* a worker that puts its record into the first slot still empty
StoreResultNextFree(files, i, file) ==
    LET free == {j \in 1..Len(files) : files[j] = ZeroFile}
    IN [files EXCEPT ![CHOOSE j \in free : \A k \in free : j <= k] = file]

\* files[i] = file
StoreResult(files, i, file) == [files EXCEPT ![i] = file]

\* Loader.Check up to wg.Wait: nothing to do, one direct probe, or one worker per URL
LoaderCheck(p) ==
    /\ p \in run.clients
    /\ pc[p] = "idle"
    /\ req' = [req EXCEPT ![p] = [kind |-> "check", id |-> 0]]
    /\ out' = [out EXCEPT ![p] = <<>>]
    /\ LET urls == call[p].urls
       IN IF Len(urls) = 0
          THEN /\ snap' = [snap EXCEPT ![p] = <<>>]
               /\ ret' = [ret EXCEPT ![p] = "nil"]
               /\ call' = [call EXCEPT ![p] = [NoCall EXCEPT !.urls = urls]]
               /\ UNCHANGED pc
          ELSE IF Len(urls) = 1
          THEN /\ \E dial \in World(urls[1]).dial :
                    snap' = [snap EXCEPT ![p] = <<CheckFile(urls[1], dial)>>]
               /\ ret' = [ret EXCEPT ![p] = "nil"]
               /\ call' = [call EXCEPT ![p] = [NoCall EXCEPT !.urls = urls]]
               /\ UNCHANGED pc
          ELSE /\ snap' = [snap EXCEPT ![p] = [i \in 1..Len(urls) |-> ZeroFile]]
               /\ ret' = [ret EXCEPT ![p] = ""]
               /\ call' = [call EXCEPT ![p] =
                              [NoCall EXCEPT !.urls = urls, !.running = 1..Len(urls)]]
               /\ pc' = [pc EXCEPT ![p] = "ck_wait"]
    /\ UNCHANGED <<mu, egress, fname, heap, cfg, run, tasks, cancelled, active, now, sweep, resp>>

\* the worker of URL i finishes: CheckFile, files[i] = file, wg.Done
CheckWorker(p, i) ==
    /\ pc[p] = "ck_wait"
    /\ i \in call[p].running
    /\ \E dial \in World(call[p].urls[i]).dial :
         snap' = [snap EXCEPT ![p] = StoreResult(snap[p], i, CheckFile(call[p].urls[i], dial))]
    /\ call' = [call EXCEPT ![p].running = @ \ {i}]
    /\ UNCHANGED <<mu, egress, fname, heap, cfg, run, tasks, cancelled, active, now, sweep, pc, req, out, resp, ret>>

\* wg.Wait is over: Check returns files and the joined errors
CheckReturn(p) ==
    /\ pc[p] = "ck_wait"
    /\ call[p].running = {}
    /\ pc' = [pc EXCEPT ![p] = "idle"]
    /\ ret' = [ret EXCEPT ![p] = "nil"]
    /\ UNCHANGED <<mu, egress, fname, heap, cfg, run, tasks, cancelled, active, now, sweep, req, snap, out, resp, call>>

\* the caller holds what Download returned
DownloadReturn(p, failFrom, d) ==
    /\ snap' = [snap EXCEPT ![p] = d.files]
    /\ out' = [out EXCEPT ![p] = d.zip]
    /\ ret' = [ret EXCEPT ![p] = d.err]
    /\ call' = [call EXCEPT ![p] = [urls |-> call[p].urls, running |-> {},
                                    closed |-> d.closed, failFrom |-> failFrom]]

\* Loader.Download from call to return
LoaderDownload(p) ==
    /\ p \in run.clients
    /\ pc[p] = "idle"
    /\ \E dials \in Dials(call[p].urls), failFrom \in 0..(Len(call[p].urls) + 1) :
            DownloadReturn(p, failFrom, Download(call[p].urls, dials, failFrom))
    /\ req' = [req EXCEPT ![p] = [kind |-> "download", id |-> 0]]
    /\ UNCHANGED <<mu, egress, fname, heap, cfg, run, tasks, cancelled, active, now, sweep, pc, resp>>

\* the caller holds the list of URLs it will pass to the Loader
InitCall ==
    \E urls \in Calls :
        /\ InitWith(Scenario(0, 0, 0, 0, CallURLs, {1}, 0).cfg,
                    Scenario(0, 0, 0, 0, CallURLs, {1}, 0).run)
        /\ tasks = <<>>
        /\ call = [NoCalls EXCEPT ![1].urls = urls]
        /\ egress = NoDial /\ fname = NoName /\ heap = <<>> /\ mu = NoLock

NextCall ==
    \/ \E p \in Procs : LoaderCheck(p)
    \/ \E p \in Procs, i \in 1..MaxBatch : CheckWorker(p, i)
    \/ \E p \in Procs : CheckReturn(p)
    \/ \E p \in Procs : LoaderDownload(p)

SpecCall == InitCall /\ [][NextCall]_vars

(***************************************************************************)
(* The egress guard (package protect) and the DialContext of the daemon's  *)
(* HTTP client.  An address is the sequence of its octets: 4 for IPv4, 16  *)
(* for IPv6.                                                               *)
(***************************************************************************)
MaxIPs == 2

V6(a, b, z) == <<a, b>> \o [i \in 1..13 |-> 0] \o <<z>>
Mapped(ip4) == [i \in 1..10 |-> 0] \o <<255, 255>> \o ip4

\* net.ParseCIDR of the eight ranges: network number and prefix length
privateIPBlocks ==
    << [IP |-> <<127, 0, 0, 0>>,   Ones |-> 8],
       [IP |-> <<10, 0, 0, 0>>,    Ones |-> 8],
       [IP |-> <<172, 16, 0, 0>>,  Ones |-> 12],
       [IP |-> <<192, 168, 0, 0>>, Ones |-> 16],
       [IP |-> <<169, 254, 0, 0>>, Ones |-> 16],
       [IP |-> V6(0, 0, 1),        Ones |-> 128],
       [IP |-> V6(252, 0, 0),      Ones |-> 7],
       [IP |-> V6(254, 128, 0),    Ones |-> 10] >>

\* net.IP.To4: the 4-octet form of an IPv4 or IPv4-mapped address, <<>> for nil
To4(ip) ==
    IF Len(ip) = 4 THEN ip
    ELSE IF /\ Len(ip) = 16
            /\ \A i \in 1..10 : ip[i] = 0
            /\ ip[11] = 255 /\ ip[12] = 255
         THEN SubSeq(ip, 13, 16)
    ELSE <<>>

\* octet x under octet k of a mask of the given prefix length
Masked(x, ones, k) ==
    LET nb == IF ones >= 8 * k THEN 8 ELSE IF ones <= 8 * (k - 1) THEN 0 ELSE ones - 8 * (k - 1)
    IN (x \div 2^(8 - nb)) * 2^(8 - nb)

\* net.IPNet.Contains
Contains(block, ip) ==
    LET x == IF To4(ip) # <<>> THEN To4(ip) ELSE ip
    IN /\ Len(x) = Len(block.IP)
       /\ \A i \in 1..Len(x) : Masked(block.IP[i], block.Ones, i) = Masked(x[i], block.Ones, i)

IsPrivateIP(ip) == \E b \in 1..Len(privateIPBlocks) : Contains(privateIPBlocks[b], ip)

\* net.IP.String: dotted for an IPv4 or IPv4-mapped address, colon-separated otherwise
IPString(ip) == IF To4(ip) # <<>> THEN [form |-> "dotted", ip |-> To4(ip)]
                ELSE [form |-> "colons", ip |-> ip]

\* the answers of net.LookupIP: an error, or a list of addresses
LookupErr == [err |-> "no such host", ips |-> <<>>]
LookupOk(ips) == [err |-> "nil", ips |-> ips]

\* a guard that looks at the address it is going to use and at no other
ReplaceHostToIPFirstOnly(addr, lookup) ==
    IF lookup.err # "nil" THEN [addr |-> "", err |-> lookup.err]
    ELSE IF Len(lookup.ips) = 0 THEN [addr |-> "", err |-> "no IP addresses found"]
    ELSE IF IsPrivateIP(lookup.ips[1]) THEN [addr |-> "", err |-> "ssrf protection"]
    ELSE [addr |-> [host |-> IPString(lookup.ips[1]), port |-> addr.port], err |-> "nil"]

\* ReplaceHostToIP of host:port, lookup being what net.LookupIP(host) answers
ReplaceHostToIP(addr, lookup) ==
    IF lookup.err # "nil" THEN [addr |-> "", err |-> lookup.err]
    ELSE IF Len(lookup.ips) = 0 THEN [addr |-> "", err |-> "no IP addresses found"]
    ELSE IF \E i \in 1..Len(lookup.ips) : IsPrivateIP(lookup.ips[i])
         THEN [addr |-> "", err |-> "ssrf protection"]
    ELSE [addr |-> [host |-> IPString(lookup.ips[1]), port |-> addr.port], err |-> "nil"]

\* dialer.DialContext of host + ":" + port: a host written with colons and
\* without brackets does not parse, and nothing is dialled
DialerDial(a) ==
    IF a.host.form = "colons" THEN [conn |-> <<>>, err |-> "too many colons in address"]
    ELSE [conn |-> a.host.ip, err |-> "nil"]

\* what the DialContext of newHTTPClient returns
DialOutcome(r) ==
    IF r.err # "nil" THEN [conn |-> <<>>, err |-> r.err] ELSE DialerDial(r.addr)

SampleIPs ==
    { <<127, 0, 0, 1>>, <<10, 0, 0, 1>>, <<172, 16, 0, 1>>, <<172, 31, 255, 255>>,
      <<172, 32, 0, 1>>, <<172, 15, 255, 255>>, <<192, 168, 0, 1>>, <<192, 169, 0, 1>>,
      <<169, 254, 169, 254>>, <<8, 8, 8, 8>>,
      V6(0, 0, 1), V6(253, 0, 1), V6(254, 128, 1), V6(254, 191, 1), V6(254, 192, 1),
      V6(32, 1, 1), Mapped(<<127, 0, 0, 1>>), Mapped(<<8, 8, 8, 8>>) }

Lookups == {LookupErr} \cup {LookupOk(ips) : ips \in UNION {[1..n -> SampleIPs] : n \in 0..MaxIPs}}

Ports == {"80", "443"}

\* the transport dials host:port: ReplaceHostToIP, then the dialer
DialContext ==
    /\ egress.pc = "dialling"
    /\ egress' = [egress EXCEPT !.pc = "done",
                            !.replaced = ReplaceHostToIP(egress.addr, egress.lookup),
                            !.outcome = DialOutcome(ReplaceHostToIP(egress.addr, egress.lookup))]
    /\ UNCHANGED <<cfg, run, tasks, cancelled, active, now, sweep, pc, req, snap, out, resp,
                   ret, call, fname, heap, mu>>

InitDial ==
    \E lookup \in Lookups, port \in Ports :
        /\ InitWith(Scenario(0, 0, 0, 0, {}, {}, 0).cfg, Scenario(0, 0, 0, 0, {}, {}, 0).run)
        /\ tasks = <<>>
        /\ call = NoCalls
        /\ fname = NoName /\ heap = <<>> /\ mu = NoLock
        /\ egress = [pc |-> "dialling", addr |-> [host |-> "host", port |-> port],
                   lookup |-> lookup, replaced |-> [addr |-> "", err |-> ""],
                   outcome |-> [conn |-> <<>>, err |-> ""]]

NextDial == DialContext

SpecDial == InitDial /\ [][NextDial]_vars

(***************************************************************************)
(* The store's slices.  A []File is a header [arr, len] over a backing     *)
(* array heap[arr] whose length is the capacity; arr = 0 is a slice with   *)
(* no cells.  Here tasks[id].Files and snap[p] are headers.                *)
(***************************************************************************)
MaxAllocs == 4

NoCells == [arr |-> 0, len |-> 0]

Cap(hp, h) == IF h.arr = 0 THEN 0 ELSE Len(hp[h.arr])

\* the elements a slice shows
Elems(hp, h) == [i \in 1..h.len |-> hp[h.arr][i]]

\* append(s, x): in place while capacity lasts, else into a new array of twice the capacity
SliceAppend(hp, h, x) ==
    IF h.len < Cap(hp, h)
    THEN [heap |-> [hp EXCEPT ![h.arr][h.len + 1] = x], hdr |-> [h EXCEPT !.len = h.len + 1]]
    ELSE [heap |-> Append(hp, Elems(hp, h) \o <<x>>
                              \o [i \in 1..(IF h.len = 0 THEN 0 ELSE h.len - 1) |-> ZeroFile]),
          hdr |-> [arr |-> Len(hp) + 1, len |-> h.len + 1]]

\* a return of the slice the store itself holds
SlicesCloneShared(hp, h) == [heap |-> hp, hdr |-> h]

\* slices.Clone(s): append(s[:0:0], s...)
SlicesClone(hp, h) ==
    IF h.len = 0 THEN [heap |-> hp, hdr |-> NoCells]
    ELSE [heap |-> Append(hp, Elems(hp, h)), hdr |-> [arr |-> Len(hp) + 1, len |-> h.len]]

\* Memstor.CreateTask: Files: make([]model.File, 0)
SliceCreateTask(id) ==
    /\ ~cancelled
    /\ id \notin DOMAIN tasks
    /\ tasks' = Put(tasks, id, [Files |-> NoCells, ExpiresAt |-> now + cfg.TaskTTL])
    /\ UNCHANGED <<cfg, run, cancelled, active, now, sweep, pc, req, snap, out, resp, ret, call,
                   egress, fname, heap, mu>>

\* Memstor.DeleteTask
SliceDeleteTask(id) ==
    /\ ~cancelled
    /\ id \in DOMAIN tasks
    /\ tasks' = Remove(tasks, {id})
    /\ UNCHANGED <<cfg, run, cancelled, active, now, sweep, pc, req, snap, out, resp, ret, call,
                   egress, fname, heap, mu>>

\* what AddFileToTask leaves once append has returned r
SliceStoreAppended(id, r) ==
    /\ heap' = r.heap
    /\ tasks' = [tasks EXCEPT ![id].Files = r.hdr]

\* Memstor.AddFileToTask: task.Files = append(task.Files, File{URL: url})
SliceAddFileToTask(id, url) ==
    /\ ~cancelled
    /\ id \in DOMAIN tasks
    /\ ~(cfg.MaxFiles >= 0 /\ tasks[id].Files.len >= cfg.MaxFiles)
    /\ Len(heap) < MaxAllocs
    /\ SliceStoreAppended(id, SliceAppend(heap, tasks[id].Files, [ZeroFile EXCEPT !.URL = url]))
    /\ UNCHANGED <<cfg, run, cancelled, active, now, sweep, pc, req, snap, out, resp, ret, call,
                   egress, fname, mu>>

\* the caller p holds the slice r.hdr
SliceReturned(p, r) ==
    /\ heap' = r.heap
    /\ snap' = [snap EXCEPT ![p] = r.hdr]
    /\ ret' = [ret EXCEPT ![p] = "nil"]

\* Memstor.GetTaskFiles: return slices.Clone(task.Files), nil
SliceGetTaskFiles(p, id) ==
    /\ p \in run.clients
    /\ ~cancelled
    /\ id \in DOMAIN tasks
    /\ Len(heap) < MaxAllocs
    /\ SliceReturned(p, SlicesClone(heap, tasks[id].Files))
    /\ UNCHANGED <<cfg, run, tasks, cancelled, active, now, sweep, pc, req, out, resp, call,
                   egress, fname, mu>>

\* Memstor.UpdateTaskFiles: task.Files[idx] = file, return task.Clone()
SliceUpdateTaskFiles(p, id, idx, status) ==
    /\ p \in run.clients
    /\ ~cancelled
    /\ id \in DOMAIN tasks
    /\ idx \in 1..tasks[id].Files.len
    /\ Len(heap) < MaxAllocs
    /\ SliceReturned(p, SlicesClone([heap EXCEPT ![tasks[id].Files.arr][idx].Status = status],
                                    tasks[id].Files))
    /\ UNCHANGED <<cfg, run, tasks, cancelled, active, now, sweep, pc, req, out, resp, call,
                   egress, fname, mu>>

\* the mark a caller leaves in an element of the slice it was given
CallerID == 7

\* the caller writes into the slice it holds, as the manager does with files[i].ID = id
CallerWrite(p, idx) ==
    /\ p \in run.clients
    /\ ret[p] = "nil"
    /\ idx \in 1..snap[p].len
    /\ heap[snap[p].arr][idx].ID # CallerID
    /\ heap' = [heap EXCEPT ![snap[p].arr][idx].ID = CallerID]
    /\ UNCHANGED <<cfg, run, tasks, cancelled, active, now, sweep, pc, req, snap, out, resp, ret,
                   call, egress, fname, mu>>

InitSlices ==
    /\ InitWith(Scenario(-1, 1, 2, 1, {"jpeg", "nf"}, Clients, 0).cfg,
                Scenario(-1, 1, 2, 1, {"jpeg", "nf"}, Clients, 0).run)
    /\ tasks = <<>>
    /\ call = NoCalls /\ egress = NoDial /\ fname = NoName /\ heap = <<>> /\ mu = NoLock

NextSlices ==
    \/ SliceCreateTask(1)
    \/ SliceDeleteTask(1)
    \/ \E u \in run.menu : SliceAddFileToTask(1, u)
    \/ \E p \in Procs : SliceGetTaskFiles(p, 1)
    \/ \E p \in Procs, idx \in 1..MaxLen, st \in {StatusOK, StatusBadGateway} :
            SliceUpdateTaskFiles(p, 1, idx, st)
    \/ \E p \in Procs, idx \in 1..MaxLen : CallerWrite(p, idx)

SpecSlices == InitSlices /\ [][NextSlices]_vars

(***************************************************************************)
(* sanitizeFilename applied to a name and then to its own result.  Names   *)
(* are drawn from runes of each class the loop tells apart: kept, dash,    *)
(* replaced by a dash, dropped.  NameLimit stands for maxBaseNameLen and   *)
(* is not below the length of the default name.                            *)
(***************************************************************************)
MaxName == 8
NameLimit == 7

NameRunes == {"a", "-", ".", "SOH"}

Names == UNION {[1..n -> NameRunes] : n \in 0..MaxName}

SanitizeOnce ==
    /\ fname.pc = "raw"
    /\ fname' = [fname EXCEPT !.pc = "once", !.once = sanitizeFilename(fname.x, NameLimit)]
    /\ UNCHANGED <<cfg, run, tasks, cancelled, active, now, sweep, pc, req, snap, out, resp,
                   ret, call, egress, heap, mu>>

SanitizeAgain ==
    /\ fname.pc = "once"
    /\ fname' = [fname EXCEPT !.pc = "twice", !.twice = sanitizeFilename(fname.once, NameLimit)]
    /\ UNCHANGED <<cfg, run, tasks, cancelled, active, now, sweep, pc, req, snap, out, resp,
                   ret, call, egress, heap, mu>>

InitNames ==
    \E x \in Names :
        /\ InitWith(Scenario(0, 0, 0, 0, {}, {}, 0).cfg, Scenario(0, 0, 0, 0, {}, {}, 0).run)
        /\ tasks = <<>>
        /\ call = NoCalls /\ egress = NoDial /\ heap = <<>> /\ mu = NoLock
        /\ fname = [pc |-> "raw", x |-> x, once |-> <<>>, twice |-> <<>>]

NextNames == SanitizeOnce \/ SanitizeAgain

SpecNames == InitNames /\ [][NextNames]_vars

(***************************************************************************)
(* GET /tasks/{id} on tasks of up to MaxStatusFiles files.                 *)
(***************************************************************************)
MaxStatusFiles == 4

InitStatus ==
    /\ InitWith(Scenario(1, 0, MaxStatusFiles, 1, {"nf"}, {1}, 0).cfg,
                Scenario(1, 0, MaxStatusFiles, 1, {"nf"}, {1}, 0).run)
    /\ tasks = <<>>
    /\ call = NoCalls /\ egress = NoDial /\ fname = NoName /\ heap = <<>> /\ mu = NoLock

NextStatus ==
    \/ CreateTask
    \/ \E t \in TaskIDs : DeleteTask(t)
    \/ \E t \in TaskIDs, u \in run.menu : AddFileToTask(t, u)
    \/ \E p \in Procs, t \in TaskIDs : GetTaskStatus(p, t)
    \/ \E p \in Procs : GetTaskStatusFinish(p)

SpecStatus == InitStatus /\ [][NextStatus]_vars

(***************************************************************************)
(* constructFileName on its own: a hint, an extension and a number go in,  *)
(* the entry name comes out.  The hints are all short rune sequences that  *)
(* can spell a path, an extension, a reserved device name in either case   *)
(* and a name that sanitizes to nothing.                                   *)
(***************************************************************************)
MaxHint == 4
MaxNum == 2

HintRunes == {"c", "o", "n", "O", "a", ".", "/", " "}

Hints == UNION {[1..n -> HintRunes] : n \in 0..MaxHint}

ConstructName ==
    /\ fname.pc = "hint"
    /\ fname' = [fname EXCEPT !.pc = "built",
                              !.built = constructFileName(fname.x, fname.ext, fname.num)]
    /\ UNCHANGED <<cfg, run, tasks, cancelled, active, now, sweep, pc, req, snap, out, resp,
                   ret, call, egress, heap, mu>>

InitConstruct ==
    \E x \in Hints, num \in 0..MaxNum, ft \in {1, Len(fileTypes)} :
        /\ InitWith(Scenario(0, 0, 0, 0, {}, {}, 0).cfg, Scenario(0, 0, 0, 0, {}, {}, 0).run)
        /\ tasks = <<>>
        /\ call = NoCalls /\ egress = NoDial /\ heap = <<>> /\ mu = NoLock
        /\ fname = [pc |-> "hint", x |-> x, num |-> num, ext |-> Extension(fileTypes[ft]),
                    built |-> <<>>]

NextConstruct == ConstructName

SpecConstruct == InitConstruct /\ [][NextConstruct]_vars

(***************************************************************************)
(* The gate and the lookup: two clients ask for the archives of two tasks  *)
(* over one download slot while tasks are being deleted.                   *)
(***************************************************************************)
InitGate ==
    /\ InitWith(Scenario(-1, 1, 1, 1, {"jpeg"}, Clients, 0).cfg,
                Scenario(-1, 1, 1, 1, {"jpeg"}, Clients, 0).run)
    /\ tasks = [t \in Clients |-> [Files |-> Added(<<"jpeg">>), ExpiresAt |-> 1]]
    /\ call = NoCalls /\ egress = NoDial /\ fname = NoName /\ heap = <<>> /\ mu = NoLock

NextGate ==
    \/ \E t \in Clients : DeleteTask(t)
    \/ \E p \in Procs, t \in Clients : Archive(p, t)
    \/ \E p \in Procs : GetTaskStatusFinish(p)
    \/ \E p \in Procs : ProcessTaskSlot(p)
    \/ \E p \in Procs : ProcessTaskRead(p)
    \/ \E p \in Procs : ProcessTaskFinish(p)

SpecGate == InitGate /\ [][NextGate]_vars

(***************************************************************************)
(* Properties.                                                             *)
(***************************************************************************)
Downloading == {p \in Procs : pc[p] = "pt_download"}

\* C1: at every moment the active counter, and with it the number of
\* Loader.Download calls in flight, lies between 0 and MaxActive.
C1_ActiveWithinMaxActive ==
    /\ 0 <= active
    /\ active <= cfg.MaxActive
    /\ Cardinality(Downloading) <= active

\* every slot of a gate with more than one slot is taken by a running download
C1_AllSlotsDownloading ==
    /\ cfg.MaxActive > 1
    /\ Cardinality(Downloading) = cfg.MaxActive
    /\ active = cfg.MaxActive

\* C2: with MaxTotal >= 0 the store never holds more than MaxTotal tasks,
\* whatever CreateTask, DeleteTask and the sweeper do.
C2_TasksWithinMaxTotal ==
    cfg.MaxTotal >= 0 => Cardinality(Live) <= cfg.MaxTotal

\* a store of several tasks is full while the sweeper holds expired ids it is about to delete
C2_FullStoreSwept ==
    /\ cfg.MaxTotal > 1
    /\ Cardinality(Live) = cfg.MaxTotal
    /\ sweep.pc = "delete"
    /\ \E t \in Live : t \notin sweep.expiredTasks

\* C3: with MaxFiles >= 0 no task ever holds more than MaxFiles files, and
\* an add to a task that holds MaxFiles files is rejected with
\* ErrMaxFilesExceeded and leaves the store as it was.
C3_FilesWithinMaxFiles ==
    cfg.MaxFiles >= 0 =>
        \A t \in Live :
            /\ Len(tasks[t].Files) <= cfg.MaxFiles
            /\ Len(tasks[t].Files) = cfg.MaxFiles =>
                    \A u \in run.menu :
                        StorAddFileToTask(t, u) = [tasks |-> tasks, err |-> "ErrMaxFilesExceeded"]

\* a task was filled up while a request that read it earlier still has its write-back to do
C3_FullTaskPendingWriteBack ==
    \E t \in Live, p \in Procs :
        /\ cfg.MaxFiles > 1
        /\ Len(tasks[t].Files) = cfg.MaxFiles
        /\ pc[p] \in {"gs_loader", "pt_download"}
        /\ req[p].id = t
        /\ Len(snap[p]) < Len(tasks[t].Files)

\* the IDs a request captured when it read the task
Captured(p) ==
    LET sel == IF pc[p] = "gs_loader" THEN StatusSelection(snap[p])
                                      ELSE DownloadSelection(snap[p])
    IN {sel[i].ID : i \in 1..Len(sel)}

\* C4: the write-back that ends GetTaskStatus or ProcessTask changes only the
\* stored files whose IDs the request captured when it read the task; every
\* other stored file is left as it was.
C4_WriteBackOnlyCaptured ==
    [][\A p \in Procs :
          (/\ pc[p] \in {"gs_loader", "pt_download"}
           /\ pc'[p] # pc[p]
           /\ req[p].id \in DOMAIN tasks
           /\ req[p].id \in DOMAIN tasks')
          => \A i \in 1..Len(tasks[req[p].id].Files) :
                tasks[req[p].id].Files[i].ID \notin Captured(p)
                => tasks'[req[p].id].Files[i] = tasks[req[p].id].Files[i]]_vars

UniqueIDs ==
    \A t \in Live : \A i, j \in 1..Len(tasks[t].Files) :
        i # j => tasks[t].Files[i].ID # tasks[t].Files[j].ID

StableIDs ==
    \A t \in DOMAIN tasks \cap DOMAIN tasks' :
        \A i \in 1..Len(tasks[t].Files) :
            i <= Len(tasks'[t].Files) => tasks'[t].Files[i].ID = tasks[t].Files[i].ID

Archived(p) ==
    /\ pc[p] = "idle"
    /\ req[p].kind = "archive"
    /\ resp[p].ctype = "application/zip"
    /\ ret[p] = "nil"
    /\ out[p] # <<>>

\* the records of the status.json that closes a ZIP
StatusRecords(zip) == zip[Len(zip)].Records

DataNames(zip) == [i \in 1..(Len(zip) - 1) |-> zip[i].Name]

NamesOf(files) == [i \in 1..Len(files) |-> files[i].Name]

StatusesOf(files) == [i \in 1..Len(files) |-> files[i].Status]

\* C6: after a Download without fatal error the ZIP holds one entry for each
\* record of status 200, in order, no entry for a record of any other status
\* (a body that broke off mid-stream and ended as 502 included), and exactly
\* one status.json.
C6_ZipHoldsExactlyTheOKFiles ==
    \A p \in Procs :
        Archived(p) =>
            /\ out[p][Len(out[p])].Name = statusName
            /\ \A i \in 1..(Len(out[p]) - 1) : out[p][i].Name # statusName
            /\ DataNames(out[p]) = NamesOf(Pick(StatusRecords(out[p]), {StatusOK}, 1))

\* C7: the archive route, asked for a task of a JPEG, a response of a type
\* that is not allowed and a URL answering 404, sends a ZIP with one data
\* entry and a status.json listing all three records with statuses
\* 200, 403, 404 in insertion order.
C7_StatusJsonListsAllThree ==
    \A p \in Procs :
        (/\ Archived(p)
         /\ req[p].id \in Live
         /\ URLsOf(tasks[req[p].id].Files) = <<"jpeg", "octet", "nf">>)
        => /\ Len(DataNames(out[p])) = 1
           /\ StatusesOf(StatusRecords(out[p])) = <<StatusOK, StatusForbidden, StatusNotFound>>

\* every goroutine of the burst has its answer
BurstDone == \A p \in Procs : pc[p] = "idle" /\ req[p].kind = "archive"

\* one request met a gate whose slots were all taken by the others
BurstOverlapped == \E p \in Procs : ret[p] = "ErrServerBusy"

\* C8: when one archive request more than MaxActive, each for a task of its
\* own, overlap in time, all but one are answered 200 application/zip and
\* exactly one is answered 503.
C8_OneBusyResponse ==
    (BurstDone /\ BurstOverlapped) =>
        /\ Cardinality({p \in Procs : resp[p] = [code |-> StatusOK, ctype |-> "application/zip"]})
              = cfg.MaxActive
        /\ Cardinality({p \in Procs : resp[p].code = StatusServiceUnavailable}) = 1

\* C9: a ProcessTask call that finds active = MaxActive returns
\* ErrServerBusy in that very step: it does not wait, reads no files, calls no
\* Loader, writes nothing to the output and leaves the active counter alone.
C9_BusyRejectedAtOnce ==
    [][\A p \in Procs :
          (pc[p] = "pt_slot" /\ pc'[p] # "pt_slot" /\ active = cfg.MaxActive)
          => /\ pc'[p] = "idle"
             /\ ret'[p] = "ErrServerBusy"
             /\ active' = active
             /\ tasks' = tasks
             /\ snap'[p] = snap[p]
             /\ out'[p] = <<>>]_vars

\* a call was turned away while another call held the only slots
C9_TurnedAway ==
    \E p \in Procs :
        /\ pc[p] = "idle"
        /\ ret[p] = "ErrServerBusy"
        /\ cfg.MaxActive > 0
        /\ active = cfg.MaxActive

\* C10: a ProcessTask call holds one slot from the moment it got it until it
\* returns and gives it back on every way out (task gone, store cancelled,
\* fatal Download error, success): the counter always equals the number of
\* calls in progress past the gate, so it is 0 when there is none, and every
\* slot taken is given back in the end.
C10_SlotAlwaysReleased ==
    /\ [](active = Cardinality(SlotHolders))
    /\ \A p \in Clients : (p \in SlotHolders) ~> (p \notin SlotHolders)

\* ProcessTask came back with an error after it had taken a slot, and no slot is held
C10_ErrorExitReleased ==
    \E p \in Procs :
        /\ pc[p] = "idle"
        /\ req[p].kind = "archive"
        /\ resp[p].ctype = "application/zip"
        /\ ret[p] \in {"ErrTaskNotFound", "ErrServerCancelled", "create zip entry failed"}
        /\ active = 0

\* the statuses that are not attempted again
Terminal == {StatusBadRequest, StatusForbidden, StatusNotFound}

\* C11: once a stored file's status is 400, 403 or 404, no write-back of a
\* GetTaskStatus or ProcessTask call on its task changes the stored record,
\* the write-back of a call that read the task before that status was
\* recorded included.
C11_TerminalRecordKept ==
    [][\A p \in Procs :
          (/\ pc[p] \in {"gs_loader", "pt_download"}
           /\ pc'[p] # pc[p]
           /\ req[p].id \in DOMAIN tasks
           /\ req[p].id \in DOMAIN tasks')
          => \A i \in 1..Len(tasks[req[p].id].Files) :
                tasks[req[p].id].Files[i].Status \in Terminal
                => tasks'[req[p].id].Files[i] = tasks[req[p].id].Files[i]]_vars

C13_CreateTaskGivesFreshID ==
    [][\A id \in TaskIDs :
          (/\ StorCreateTask(id).err = "nil"
           /\ tasks' = StorCreateTask(id).tasks
           /\ UNCHANGED <<mu, egress, fname, heap, cfg, run, cancelled, active, now, sweep, pc, req, snap, out, resp,
                          ret, call>>)
          => /\ id \notin Live
             /\ Cardinality(DOMAIN tasks') = Cardinality(Live) + 1
             /\ \A t \in Live : tasks'[t] = tasks[t]]_vars

\* C14: every task ID a successful CreateTask returns is greater than 0, so
\* helper.GetID accepts it in every later request for the task.
C14_TaskIDsPositive == \A t \in Live : GetIDOk(t)

\* C15: on a store that is not cancelled DeleteTask succeeds whether or not
\* the task exists; once a task is deleted, deleting it again succeeds and
\* leaves the store as the first DeleteTask left it, and a lookup of the ID
\* yields ErrTaskNotFound.
C15_DeleteTaskIdempotent ==
    /\ [](~cancelled =>
            \A t \in TaskIDs :
                /\ StorDeleteTask(t).err = "nil"
                /\ t \notin DOMAIN StorDeleteTask(t).tasks
                /\ t \notin Live =>
                      /\ StorDeleteTask(t).tasks = tasks
                      /\ StorGetTaskFiles(t).err = "ErrTaskNotFound")
    /\ [][\A t \in Live :
            (/\ ~cancelled
             /\ tasks' = StorDeleteTask(t).tasks
             /\ UNCHANGED <<mu, egress, fname, heap, cfg, run, cancelled, active, now, sweep, pc, req, snap, out, resp,
                            ret, call>>)
            => /\ (StorDeleteTask(t))' = [tasks |-> tasks', err |-> "nil"]
               /\ (StorGetTaskFiles(t))' = [files |-> <<>>, err |-> "ErrTaskNotFound"]
               /\ \A u \in Live \ {t} : u \in DOMAIN tasks' /\ tasks'[u] = tasks[u]]_vars

\* a task was deleted under a request that had read it and has yet to write back
C15_DeletedUnderRequest ==
    \E p \in Procs :
        /\ ~cancelled
        /\ run.horizon = 0
        /\ pc[p] \in {"gs_loader", "pt_download"}
        /\ req[p].id \notin Live

Downloaded(p) == pc[p] = "idle" /\ req[p].kind = "download"

\* Loader.Check has returned to goroutine p
Checked(p) == pc[p] = "idle" /\ req[p].kind = "check"

\* the entries of a ZIP that are named status.json
StatusEntries(zip) == {i \in 1..Len(zip) : zip[i].Name = statusName}

\* C17: when every URL given to Download fails per-file, or the list is
\* empty, and the output takes what is written to it, Download still writes
\* the status.json entry, last, with one record per URL, closes the ZIP
\* writer and returns no error.
C17_StatusJsonWhenAllFailed ==
    \A p \in Procs :
        (/\ Downloaded(p)
         /\ call[p].failFrom = 0
         /\ \A i \in 1..Len(snap[p]) : snap[p][i].Status # StatusOK)
        => /\ ret[p] = "nil"
           /\ call[p].closed
           /\ StatusEntries(out[p]) = {Len(out[p])}
           /\ StatusRecords(out[p]) = snap[p]
           /\ URLsOf(snap[p]) = call[p].urls

\* Download returned from a list of MaxBatch URLs that failed in different ways
C17_AllFailed ==
    \E p \in Procs :
        /\ Downloaded(p)
        /\ call[p].failFrom = 0
        /\ Len(call[p].urls) = MaxBatch
        /\ \A i \in 1..Len(snap[p]) : snap[p][i].Status # StatusOK
        /\ Cardinality({snap[p][i].Status : i \in 1..Len(snap[p])}) > 1

\* a record that failed says so in its status and carries an error message,
\* the standard text of its status at least
Reported(file) ==
    (file.Status # StatusOK /\ StatusText(file.Status) # "") => file.ErrorMsg # ""

C20_CheckKeepsInputOrder ==
    /\ [](\A p \in Procs :
            Checked(p) =>
                /\ Len(snap[p]) = Len(call[p].urls)
                /\ \A i \in 1..Len(snap[p]) : snap[p][i].URL = call[p].urls[i]
                /\ \E dials \in Dials(call[p].urls) : snap[p] = Check(call[p].urls, dials))
    /\ [][\A p \in Procs :
            (pc[p] = "ck_wait" /\ pc'[p] # "ck_wait") => call[p].running = {}]_vars

\* the workers of the later URLs have finished, the worker of the first URL has not
C20_LastWorkerFirst ==
    \E p \in Procs :
        /\ pc[p] = "ck_wait"
        /\ Len(call[p].urls) = MaxBatch
        /\ call[p].running = {1}
        /\ snap[p][1] = ZeroFile
        /\ \A i \in 2..MaxBatch : snap[p][i].URL = call[p].urls[i]
        /\ call[p].urls[1] # call[p].urls[MaxBatch]

\* a URL whose host resolves only to addresses in the blocked ranges
Blocked(u) == World(u).parse /\ World(u).dial = {"ssrf"}

\* C21: for every HEAD probe of a URL whose host resolves only to blocked
\* addresses the record has status 403 and an error message that tells the
\* egress block from every other 403 (a disallowed content type, a 403
\* answered by the remote server), and Check returns no error.
C21_SSRFMessageIdentifiesBlock ==
    \A p \in Procs :
        Checked(p) =>
            \A i \in 1..Len(snap[p]) :
                Blocked(call[p].urls[i]) =>
                    /\ ret[p] = "nil"
                    /\ snap[p][i].Status = StatusForbidden
                    /\ \A j \in 1..Len(snap[p]) :
                          (~Blocked(call[p].urls[j]) /\ snap[p][j].Status = StatusForbidden)
                          => snap[p][j].ErrorMsg # snap[p][i].ErrorMsg

\* Check returned the record of a blocked URL and the record of a URL whose
\* server answered 403, and the two carry the same message
C21_BlockedLooksLikeRemote403 ==
    \E p \in Procs :
        /\ Checked(p)
        /\ ret[p] = "nil"
        /\ \E i, j \in 1..Len(snap[p]) :
              /\ Blocked(call[p].urls[i])
              /\ call[p].urls[j] = "deny"
              /\ snap[p][i].Status = StatusForbidden
              /\ snap[p][j].Status = StatusForbidden
              /\ snap[p][i].ErrorMsg = snap[p][j].ErrorMsg
              /\ snap[p][i].ErrorMsg = StatusText(StatusForbidden)

\* an address in one of the blocked ranges, by its numbers
InBlockedRange(ip) ==
    LET x == IF Len(ip) = 16 /\ SubSeq(ip, 1, 12) = SubSeq(Mapped(<<0, 0, 0, 0>>), 1, 12)
             THEN SubSeq(ip, 13, 16) ELSE ip
    IN IF Len(x) = 4
       THEN \/ x[1] = 127
            \/ x[1] = 10
            \/ x[1] = 172 /\ x[2] \in 16..31
            \/ x[1] = 192 /\ x[2] = 168
            \/ x[1] = 169 /\ x[2] = 254
       ELSE \/ x = V6(0, 0, 1)
            \/ x[1] \in {252, 253}
            \/ x[1] = 254 /\ x[2] \in 128..191

\* C22: ReplaceHostToIP(host:port) fails with the SSRF error whenever at
\* least one address resolved for host lies in a blocked range, even if
\* others are public; otherwise it returns the first resolved address joined
\* with the original port; so a connection is made only to a resolved
\* address outside the blocked ranges, never after a failed lookup.
C22_NoDialToBlockedAddress ==
    egress.pc = "done" =>
        LET ips == egress.lookup.ips
            anyBlocked == \E i \in 1..Len(ips) : InBlockedRange(ips[i])
        IN /\ (egress.lookup.err = "nil" /\ anyBlocked)
                => egress.replaced.err = "ssrf protection"
           /\ (egress.lookup.err = "nil" /\ Len(ips) > 0 /\ ~anyBlocked)
                => /\ egress.replaced.err = "nil"
                   /\ egress.replaced.addr.host = IPString(ips[1])
                   /\ egress.replaced.addr.port = egress.addr.port
           /\ (egress.lookup.err # "nil" \/ Len(ips) = 0) => egress.replaced.err \notin {"nil", "ssrf protection"}
           /\ egress.replaced.err # "nil" => egress.outcome.conn = <<>>
           /\ egress.outcome.conn # <<>>
                => /\ ~InBlockedRange(egress.outcome.conn)
                   /\ egress.lookup.err = "nil"
                   /\ \/ egress.outcome.conn = ips[1]
                      \/ Mapped(egress.outcome.conn) = ips[1]

\* the resolver answered a public address first and a blocked one second, and the dial was refused
C22_MixedAnswerRefused ==
    /\ egress.pc = "done"
    /\ Len(egress.lookup.ips) = 2
    /\ ~InBlockedRange(egress.lookup.ips[1])
    /\ InBlockedRange(egress.lookup.ips[2])
    /\ egress.replaced.err = "ssrf protection"
    /\ egress.outcome.conn = <<>>

\* the type the registry gives to the leading bytes of the body of u
Sniffed(u) ==
    LET body == Concat(World(u).chunks, Len(World(u).chunks))
    IN getFileTypeBySignature(SubSeq(body, 1, Min(magicLen, Len(body))))

\* the response to u is 200 and its first chunk can be read
HeadRead(u) ==
    /\ World(u).parse /\ World(u).dial = {"ok"} /\ World(u).code = StatusOK
    /\ ReadHead(World(u).chunks, World(u).fin).readErr # "ERR"

\* the ZIP holds an entry for the file
HasEntry(zip, file) == file.Name # <<>> /\ \E e \in 1..Len(zip) : zip[e].Name = file.Name

\* both the declared and the sniffed type of u are on the allow-list
BothAllowed(u) ==
    /\ World(u).ctype \in AllowMIMETypes
    /\ Sniffed(u) # NoFileType
    /\ Sniffed(u).MIMEType \in AllowMIMETypes

EndsWith(s, t) == Len(s) >= Len(t) /\ SubSeq(s, Len(s) - Len(t) + 1, Len(s)) = t

\* C23: Download gives a file status 200, or a ZIP entry, only if its
\* declared Content-Type and the type sniffed from its leading bytes are
\* both on the allow-list; when both are allowed the file is accepted even
\* if they differ, real_type is the sniffed type and the entry name ends
\* with that type's first extension; when the leading bytes, read without
\* error under an allowed declared type, match no registry entry the status
\* is 403.
C23_DeclaredAndSniffedTypeAllowed ==
    \A p \in Procs :
        Downloaded(p) =>
            \A i \in 1..Len(snap[p]) :
                LET u == call[p].urls[i]
                    file == snap[p][i]
                IN /\ (file.Status = StatusOK \/ HasEntry(out[p], file))
                        => HeadRead(u) /\ BothAllowed(u)
                   /\ (HeadRead(u) /\ BothAllowed(u) /\ file.Status # StatusInternalServerError)
                        => /\ HasEntry(out[p], file)
                           /\ file.RealType = Sniffed(u).MIMEType
                           /\ file.ContentType = World(u).ctype
                           /\ EndsWith(file.Name, Sniffed(u).Extensions[1])
                           /\ World(u).fin = "EOF" => file.Status = StatusOK
                   /\ (HeadRead(u) /\ World(u).ctype \in AllowMIMETypes /\ Sniffed(u) = NoFileType)
                        => file.Status = StatusForbidden /\ ~HasEntry(out[p], file)

\* a file declared application/pdf whose bytes are a JPEG went into the ZIP
\* as .jpg, next to a file refused for its bytes and one refused for an empty body
C23_AcceptedUnderSniffedType ==
    \E p \in Procs :
        /\ Downloaded(p)
        /\ Len(snap[p]) = MaxBatch
        /\ \E i, j, k \in 1..MaxBatch :
              /\ call[p].urls[i] = "named"
              /\ snap[p][i].Status = StatusOK
              /\ snap[p][i].ContentType = "application/pdf"
              /\ snap[p][i].RealType = "image/jpeg"
              /\ HasEntry(out[p], snap[p][i])
              /\ EndsWith(snap[p][i].Name, <<".", "j", "p", "g">>)
              /\ call[p].urls[j] = "png" /\ snap[p][j].Status = StatusForbidden
              /\ call[p].urls[k] = "empty" /\ snap[p][k].Status = StatusForbidden

\* the caller p holds a slice returned by the store
Held(p) == ret[p] = "nil"

\* the files of every task as the store shows them
StoreView(ts, hp) == [id \in DOMAIN ts |-> Elems(hp, ts[id].Files)]

\* C24: a file list returned by GetTaskFiles or UpdateTaskFiles (the value
\* GetTaskStatus hands on) is a copy: a step that changes what the store
\* shows changes no value a caller already holds, and a step that changes a
\* held value, the caller writing into it, changes neither what the store
\* shows nor a value another caller holds.
C24_ReturnedValuesAreCopies ==
    [][\A p \in Procs :
          (Held(p) /\ snap'[p] = snap[p]) =>
              /\ StoreView(tasks', heap') # StoreView(tasks, heap)
                    => Elems(heap', snap[p]) = Elems(heap, snap[p])
              /\ Elems(heap', snap[p]) # Elems(heap, snap[p])
                    => /\ StoreView(tasks', heap') = StoreView(tasks, heap)
                       /\ \A q \in Procs \ {p} :
                             (Held(q) /\ snap'[q] = snap[q])
                             => Elems(heap', snap[q]) = Elems(heap, snap[q])]_vars

\* a caller holds a list it wrote into, the store has since written a status
\* into the same file, and neither shows the other's change
C24_CopyAndStoreDiverged ==
    \E p \in Procs :
        /\ Held(p)
        /\ 1 \in DOMAIN tasks
        /\ snap[p].len = tasks[1].Files.len
        /\ snap[p].len > 0
        /\ Elems(heap, snap[p])[1].ID = CallerID
        /\ Elems(heap, snap[p])[1].Status = 0
        /\ Elems(heap, tasks[1].Files)[1].ID # CallerID
        /\ Elems(heap, tasks[1].Files)[1].Status = StatusOK

\* C25: sanitizeFilename is idempotent: applied to its own result it returns
\* that result, for names cut at the limit and for names that sanitize to
\* the default name as for any other.
C25_SanitizeIdempotent ==
    fname.pc = "twice" =>
        /\ fname.twice = fname.once
        /\ Len(fname.once) \in 1..NameLimit

\* a name longer than the limit was cut at a dash, lost the dash, and came
\* back unchanged from the second pass
C25_CutAtDash ==
    /\ fname.pc = "twice"
    /\ Len(fname.x) > NameLimit
    /\ Len(fname.once) = NameLimit - 1
    /\ Len(sanitizeLoop(fname.x, 1, "-", <<>>, 0, NameLimit)) = NameLimit
    /\ fname.twice = fname.once

\* goroutine p has answered a GET /tasks/{id} with 200
StatusAnswered(p) == pc[p] = "idle" /\ req[p].kind = "status" /\ resp[p].code = StatusOK

\* C26: the GET task-status response contains the archive field exactly
\* when the returned task has at least 3 files, and its value is
\* <filesBasePath>/task_<id>.zip for the requested id.
C26_ArchiveFieldFromThreeFiles ==
    \A p \in Procs :
        StatusAnswered(p) =>
            /\ resp[p].body.archive # <<>> <=> resp[p].body.files >= 3
            /\ resp[p].body.archive # <<>>
                  => resp[p].body.archive = <<"filesBasePath", "/task_", req[p].id, ".zip">>

\* a status response for a task of exactly three files, carrying the archive of task 1
C26_ArchiveAtThree ==
    \E p \in Procs :
        /\ StatusAnswered(p)
        /\ req[p].id = 1
        /\ resp[p].body.files = 3
        /\ resp[p].body.archive = <<"filesBasePath", "/task_", 1, ".zip">>

NeedsProbe(file) == file.Status \in {0, 502}
NeedsDownload(file) == file.Status \in {0, 200}

\* C27: GetTaskStatus passes to Loader.Check exactly the URLs of the files
\* whose status in the snapshot it read is 0 or 502, in stored order: a file
\* of any other status is not probed, a file of status 502 is probed by
\* every GetTaskStatus that reads it so.  The snapshot is the stored list.
C27_ChecksUnprobedAndBadGateway ==
    /\ [](\A p \in Procs :
            pc[p] = "gs_loader" => call[p].urls = URLsOf(SelectSeq(snap[p], NeedsProbe)))
    /\ [][\A p \in Procs :
            (pc[p] = "idle" /\ pc'[p] = "gs_loader") => snap'[p] = tasks[req'[p].id].Files]_vars

\* GetTaskStatus read a file that answered 502 last time and a file that
\* answered 404, and waits for Loader.Check on the first alone
C27_BadGatewayProbedAgain ==
    \E p \in Procs :
        /\ pc[p] = "gs_loader"
        /\ Len(snap[p]) = 2
        /\ \E i, j \in 1..2 :
              /\ snap[p][i].Status = StatusBadGateway
              /\ snap[p][j].Status = StatusNotFound
              /\ call[p].urls = <<snap[p][i].URL>>

OnLoader == {p \in Procs : pc[p] \in {"gs_loader", "pt_download"}}

\* C29: no store lock is held while Loader.Check or Loader.Download runs:
\* while a GetTaskStatus or ProcessTask waits on the Loader the lock has no
\* reader and no writer, and CreateTask, DeleteTask, AddFileToTask, the
\* GetTaskFiles of another request and both phases of a due sweep can take
\* their step.
C29_NoLockAcrossLoader ==
    OnLoader # {} =>
        /\ mu = NoLock
        /\ ENABLED CreateTask
        /\ \A t \in TaskIDs : ENABLED DeleteTask(t)
        /\ \A t \in Live, u \in run.menu :
              Len(tasks[t].Files) < MaxLen => ENABLED AddFileToTask(t, u)
        /\ \A q \in run.clients, t \in TaskIDs : pc[q] = "idle" => ENABLED GetTaskStatus(q, t)
        /\ (sweep.pc = "wait" /\ ~cancelled /\ now >= sweep.due) => ENABLED SweepSnapshot
        /\ sweep.pc = "delete" => ENABLED SweepDelete

\* a ProcessTask still waits on Download for the two files it read, while
\* its task has been deleted, created anew and given one file
C29_StoreMovedOnDuringDownload ==
    \E p \in Procs :
        /\ pc[p] = "pt_download"
        /\ Len(snap[p]) = 2
        /\ req[p].id \in DOMAIN tasks
        /\ Len(tasks[req[p].id].Files) = 1

\* C30: if the task is deleted, or the store cancelled, while the Download
\* of ProcessTask is in flight and Download returns no fatal error (it wrote
\* status.json), ProcessTask returns success and frees its slot, and the
\* failed write-back leaves the store as it was: the task is not created
\* again and no other task changes.
C30_LostTaskWriteBackIsSilent ==
    [][\A p \in Procs :
          (/\ pc[p] = "pt_download"
           /\ pc'[p] # "pt_download"
           /\ (cancelled \/ req[p].id \notin DOMAIN tasks)
           /\ StatusEntries(out'[p]) # {})
          => /\ ret'[p] = "nil"
             /\ pc'[p] = "idle"
             /\ tasks' = tasks
             /\ cancelled' = cancelled
             /\ active' = active - 1]_vars

\* Download is in flight for the files of a task that has been deleted
\* since, while another task is in the store
C30_DeletedDuringDownload ==
    \E p \in Procs :
        /\ pc[p] = "pt_download"
        /\ Len(call[p].urls) > 0
        /\ ~cancelled
        /\ req[p].id \notin DOMAIN tasks
        /\ DOMAIN tasks # {}

\* s is an initial segment of t
IsPrefix(s, t) == Len(s) <= Len(t) /\ \A i \in 1..Len(s) : s[i] = t[i]

\* C31: the URLs of a task's files are append-only: whatever AddFileToTask,
\* a GetTaskStatus write-back or a ProcessTask write-back does to a task that
\* is in the store before and after the step, the URLs stored before the step
\* are an initial segment of the URLs stored after it (a CreateTask that puts
\* a new task under the ID is the only step left out).
C31_FileURLsAppendOnly ==
    [][\A t \in Live :
          (t \in DOMAIN tasks' /\ tasks' # StorCreateTask(t).tasks)
          => IsPrefix(URLsOf(tasks[t].Files), URLsOf(tasks'[t].Files))]_vars

\* What does hold: a write-back of a call whose snapshot is still an initial
\* segment of the stored list (the task was not replaced under its ID since
\* the call read it) leaves the stored URLs an initial segment of the new ones.
SameListAppendOnly ==
    [][\A p \in Procs :
          (/\ pc[p] \in {"gs_loader", "pt_download"}
           /\ pc'[p] # pc[p]
           /\ req[p].id \in DOMAIN tasks
           /\ req[p].id \in DOMAIN tasks'
           /\ IsPrefix(URLsOf(snap[p]), URLsOf(tasks[req[p].id].Files)))
          => IsPrefix(URLsOf(tasks[req[p].id].Files), URLsOf(tasks'[req[p].id].Files))]_vars

\* what AddFileToTask(t, u) answers on the store as it is, not cancelled
AddAnswers(t, u) ==
    LET r == StorAddFileToTask(t, u)
    IN /\ t \notin Live => r = [tasks |-> tasks, err |-> "ErrTaskNotFound"]
       /\ (t \in Live /\ cfg.MaxFiles >= 0 /\ Len(tasks[t].Files) >= cfg.MaxFiles)
            => r = [tasks |-> tasks, err |-> "ErrMaxFilesExceeded"]
       /\ (t \in Live /\ (cfg.MaxFiles < 0 \/ Len(tasks[t].Files) < cfg.MaxFiles))
            => /\ r.err = "nil"
               /\ DOMAIN r.tasks = Live
               /\ \A o \in Live \ {t} : r.tasks[o] = tasks[o]
               /\ r.tasks[t].ExpiresAt = tasks[t].ExpiresAt
               /\ Len(r.tasks[t].Files) = Len(tasks[t].Files) + 1
               /\ IsPrefix(tasks[t].Files, r.tasks[t].Files)
               /\ LET f == r.tasks[t].Files[Len(r.tasks[t].Files)]
                  IN f = [ZeroFile EXCEPT !.URL = u, !.ID = f.ID]

\* a step that made the list of a stored task longer added one file at its
\* end, with a URL and an ID and nothing else set, to a task below MaxFiles,
\* and changed nothing else in the store
GrewByOne(t) ==
    LET old == tasks[t].Files
        new == tasks'[t].Files
    IN Len(new) > Len(old) =>
        /\ Len(new) = Len(old) + 1
        /\ IsPrefix(old, new)
        /\ new[Len(new)] = [ZeroFile EXCEPT !.URL = new[Len(new)].URL, !.ID = new[Len(new)].ID]
        /\ new[Len(new)].URL \in run.menu
        /\ cfg.MaxFiles < 0 \/ Len(old) < cfg.MaxFiles
        /\ DOMAIN tasks' = Live
        /\ \A o \in Live \ {t} : tasks'[o] = tasks[o]

\* C32: on a store that is not cancelled, AddFileToTask answers
\* ErrTaskNotFound for an ID that is not in the store and ErrMaxFilesExceeded
\* for a task that holds MaxFiles files, the store staying as it is; otherwise
\* it appends exactly one file at the end of that task's list, carrying the
\* URL, status 0 and (besides its ID) no other attribute, and no other task
\* changes.
C32_AddFileToTaskOutcomes ==
    /\ [](~cancelled => \A t \in TaskIDs, u \in run.menu : AddAnswers(t, u))
    /\ [][\A t \in Live : t \in DOMAIN tasks' => GrewByOne(t)]_vars

\* a task filled up to MaxFiles by appends, next to an ID that is not in the store
C32_FullTaskAndAbsentID ==
    /\ ~cancelled
    /\ cfg.MaxFiles = 2
    /\ 1 \in Live /\ 0 \notin Live
    /\ URLsOf(tasks[1].Files) = <<"flaky", "nf">>
    /\ tasks[1].Files[2].Status = 0
    /\ StorAddFileToTask(1, "nf").err = "ErrMaxFilesExceeded"
    /\ StorAddFileToTask(0, "nf").err = "ErrTaskNotFound"

\* the status the claim gives the probe of a URL, by what happens on the way
ProbeStatus(uri, dial) ==
    IF ~World(uri).parse THEN StatusBadRequest
    ELSE IF dial = "ssrf" THEN StatusForbidden
    ELSE IF dial = "neterr" THEN StatusBadGateway
    ELSE IF World(uri).code = StatusOK /\ World(uri).ctype \notin AllowMIMETypes
    THEN StatusForbidden
    ELSE World(uri).code

\* the record Check returned for URL i is the probe's record for one of the
\* ways the request can go, with the status the claim gives it
ProbedAsMapped(p, i) ==
    \E dial \in World(call[p].urls[i]).dial :
        /\ snap[p][i] = CheckFile(call[p].urls[i], dial)
        /\ snap[p][i].Status = ProbeStatus(call[p].urls[i], dial)

\* C33: the status a Check probe records is 400 for a URL that does not
\* parse, 403 for the egress error, 502 for any other transport error,
\* otherwise the response status, a 200 with a declared Content-Type off the
\* allow-list becoming 403; and a record whose status is not 200 always has
\* a non-empty error message.
C33_ProbeStatusAndMessage ==
    \A p \in Procs :
        Checked(p) =>
            \A i \in 1..Len(snap[p]) :
                /\ ProbedAsMapped(p, i)
                /\ snap[p][i].Status # StatusOK => snap[p][i].ErrorMsg # ""

\* What does hold: the statuses are the ones the claim lists, and a failed
\* record has a message whenever http.StatusText knows its status.
ProbeStatusMapped ==
    \A p \in Procs :
        Checked(p) =>
            \A i \in 1..Len(snap[p]) : ProbedAsMapped(p, i) /\ Reported(snap[p][i])

\* what CreateTask answers on the store as it is, not cancelled, whatever ID it draws
CreateAnswers(id) ==
    LET r == StorCreateTask(id)
        busy == r.err = "ErrServerBusy"
    IN /\ cfg.MaxTotal = 0 => busy
       /\ cfg.MaxTotal < 0 => ~busy
       /\ cfg.MaxTotal > 0 => (busy <=> Cardinality(Live) >= cfg.MaxTotal)
       /\ busy => r.tasks = tasks /\ r.id = 0
       /\ ~busy => r.err = "nil" /\ id \in DOMAIN r.tasks

\* C34: on a store that is not cancelled, CreateTask fails with
\* ErrServerBusy always when MaxTotal = 0, never when MaxTotal < 0, and
\* exactly when the number of stored tasks is >= MaxTotal when MaxTotal > 0;
\* a rejected CreateTask leaves the store as it is, and the store gains a
\* task only in a step the limit allows.
C34_ServerBusyByMaxTotal ==
    /\ [](~cancelled => \A id \in TaskIDs : CreateAnswers(id))
    /\ [][Cardinality(DOMAIN tasks') > Cardinality(Live)
            => cfg.MaxTotal < 0 \/ Cardinality(Live) < cfg.MaxTotal]_vars

\* creation is switched off and a request has found the store empty
C34_CreationSwitchedOff ==
    /\ cfg.MaxTotal = 0
    /\ ~cancelled
    /\ Live = {}
    /\ ret[1] = "ErrTaskNotFound"
    /\ StorCreateTask(1).err = "ErrServerBusy"

\* the hint without its path and its last extension
Stem(x) == StripName(Base(x))

\* nothing of the hint survives: it is empty, or every rune of its stem is
\* replaced by a dash or dropped
FullyStripped(x) ==
    \A i \in 1..Len(Stem(x)) :
        Stem(x)[i] \in SpaceRunes \cup ControlRunes \cup asciiProblem \cup fullwidthProblem \cup {"-"}

\* the sanitized base of a hint
SanitizedBase(x) == IF x = <<>> THEN defaultFileName ELSE sanitizeFilename(Stem(x), maxBaseNameLen)

\* C35: constructFileName with uniqueNum > 0 returns
\* <sanitized base>-<uniqueNum><ext> and appends no '_', for a reserved
\* device name too; with uniqueNum = 0 it returns <base>_<ext> when the
\* upper-cased sanitized base is a reserved device name and <base><ext>
\* otherwise; a hint that is empty or of which nothing survives gives the
\* base 'unnamed'.
C35_EntryNameShape ==
    fname.pc = "built" =>
        LET base == SanitizedBase(fname.x)
            reserved == ToUpper(base) \in reservedNames
        IN /\ FullyStripped(fname.x) => base = defaultFileName
           /\ fname.num > 0 =>
                /\ fname.built = base \o <<"-">> \o Itoa(fname.num) \o fname.ext
                /\ \A i \in 1..Len(fname.built) : fname.built[i] # "_"
           /\ (fname.num = 0 /\ reserved) => fname.built = base \o <<"_">> \o fname.ext
           /\ (fname.num = 0 /\ ~reserved) => fname.built = base \o fname.ext
           \* two rows of the test table, in the runes of the model
           /\ (fname.x = <<"c", "o", "n", ".">> /\ fname.num = 0)
                => fname.built = <<"c", "o", "n", "_">> \o fname.ext
           /\ (fname.x = <<"/", ".", " ">> /\ fname.num = 1)
                => fname.built = defaultFileName \o <<"-", "1">> \o fname.ext

\* a reserved device name behind a path and before an extension, built with a number
C35_ReservedWithNumber ==
    /\ fname.pc = "built"
    /\ fname.x = <<"/", "c", "O", "n">>
    /\ fname.num = MaxNum
    /\ fname.built = <<"c", "O", "n", "-">> \o Itoa(MaxNum) \o <<".", "j", "p", "g">>

\* C36: a GetTaskStatus call that found no file with status 0 or 502 in the
\* snapshot it read changes no stored file record when it finishes: what
\* other calls stored between its read and its write-back stays.
C36_NothingToProbeNothingWritten ==
    [][\A p \in Procs :
          (/\ pc[p] = "gs_loader"
           /\ pc'[p] # "gs_loader"
           /\ StatusSelection(snap[p]) = <<>>
           /\ req[p].id \in DOMAIN tasks
           /\ req[p].id \in DOMAIN tasks')
          => tasks'[req[p].id].Files = tasks[req[p].id].Files]_vars

\* a status call with nothing to probe holds a snapshot that says 200 for a
\* file the store has since recorded as refused at download
C36_StaleSnapshotPending ==
    \E p \in Procs :
        /\ pc[p] = "gs_loader"
        /\ req[p].kind = "status"
        /\ call[p].urls = <<>>
        /\ req[p].id \in Live
        /\ Len(snap[p]) = 1
        /\ Len(tasks[req[p].id].Files) = 1
        /\ snap[p][1].Status = StatusOK
        /\ tasks[req[p].id].Files[1].URL = snap[p][1].URL
        /\ tasks[req[p].id].Files[1].Status = StatusForbidden
        /\ tasks[req[p].id].Files[1].ErrorMsg = "unknown file type"

\* C37: a sweep removes only tasks whose ExpiresAt is not in the future at
\* the moment they are removed: a task put into the store between the
\* sweeper's read-locked phase and its write-locked phase, under a new ID or
\* under the ID of a task deleted in between, is not removed by that sweep.
C37_SweepRemovesOnlyExpired ==
    [][(sweep.pc = "delete" /\ sweep'.pc = "wait")
          => \A t \in Live \ DOMAIN tasks' : tasks[t].ExpiresAt <= now]_vars

\* the sweeper has listed a task as expired, and the task now stored under
\* that ID expires in the future
C37_ListedIDHoldsNewTask ==
    /\ sweep.pc = "delete"
    /\ \E t \in sweep.expiredTasks \cap Live : tasks[t].ExpiresAt > now

\* the errors Loader.Download can return to the ProcessTask of goroutine p
DownloadErrors(p) ==
    {Download(call[p].urls, dials, failFrom).err :
        dials \in Dials(call[p].urls), failFrom \in 0..(Len(call[p].urls) + 1)} \ {"nil"}

\* C38: when Loader.Download returns a fatal error, ProcessTask returns that
\* error, gives its slot back and does no write-back: the store is after the
\* step exactly what it was before it.
C38_FatalDownloadWritesNothing ==
    [][\A p \in Procs :
          (pc[p] = "pt_download" /\ pc'[p] # "pt_download" /\ ret'[p] # "nil")
          => /\ ret'[p] \in DownloadErrors(p)
             /\ pc'[p] = "idle"
             /\ active' = active - 1
             /\ tasks' = tasks
             /\ mu' = mu]_vars

\* ProcessTask came back with the fatal error of a Download that had been
\* given two files of status 200 and had written part of the ZIP; the slot
\* is free and the stored records are untouched
C38_FailedWithFilesUntouched ==
    \E p \in Procs :
        /\ pc[p] = "idle"
        /\ req[p].kind = "archive"
        /\ ret[p] = "create zip entry failed"
        /\ active = 0
        /\ req[p].id \in Live
        /\ Len(tasks[req[p].id].Files) = 2
        /\ \A i \in 1..2 : tasks[req[p].id].Files[i].Status = StatusOK
        /\ Len(out[p]) > 0

\* goroutine p leaves the gate of ProcessTask in this step
LeavesGate(p) == pc[p] = "pt_slot" /\ pc'[p] # "pt_slot"

\* goroutine p leaves the lookup of ProcessTask in this step
LeavesLookup(p) == pc[p] = "pt_read" /\ pc'[p] # "pt_read"

\* C39: ProcessTask takes a download slot before it looks the task up.  A
\* call that comes to the gate with no slot free returns ErrServerBusy
\* whether its task exists or not; a call that comes with a slot free takes
\* it whether its task exists or not, holds it while it looks the task up,
\* and gives it back when the lookup answers ErrTaskNotFound.  While it holds
\* the slot, the call of another client for a task that exists is turned
\* away at the gate.
C39_SlotBeforeLookup ==
    /\ [](\A p \in Procs : pc[p] = "pt_read" => active >= 1)
    /\ [][\A p \in Procs :
            /\ (LeavesGate(p) /\ active >= cfg.MaxActive)
                 => /\ ret'[p] = "ErrServerBusy"
                    /\ pc'[p] = "idle"
                    /\ active' = active
            /\ (LeavesGate(p) /\ active < cfg.MaxActive)
                 => /\ pc'[p] = "pt_read"
                    /\ active' = active + 1
            /\ (LeavesLookup(p) /\ req[p].id \notin Live)
                 => /\ ret'[p] = "ErrTaskNotFound"
                    /\ pc'[p] = "idle"
                    /\ active' = active - 1]_vars

\* a call for a task that is gone holds the only slot while the call of the
\* other client, whose task is in the store, stands at the gate
C39_SlotHeldForMissingTask ==
    \E p, q \in Procs :
        /\ pc[p] = "pt_read"
        /\ req[p].id \notin Live
        /\ pc[q] = "pt_slot"
        /\ req[q].id \in Live
        /\ active = cfg.MaxActive

\* a stored task whose ExpiresAt has passed and which no sweep has removed yet
Overdue(t) == t \in Live /\ isExpired(tasks[t])

\* what the store answers for an overdue task is what it answers for any task
OverdueAnswers(t) ==
    /\ StorGetTaskFiles(t) = [files |-> tasks[t].Files, err |-> "nil"]
    /\ \A u \in run.menu :
          StorAddFileToTask(t, u).err =
              IF cfg.MaxFiles >= 0 /\ Len(tasks[t].Files) >= cfg.MaxFiles
              THEN "ErrMaxFilesExceeded" ELSE "nil"
    /\ (cfg.MaxTotal >= 0 /\ Cardinality(Live) >= cfg.MaxTotal)
          => \A id \in TaskIDs : StorCreateTask(id) = [tasks |-> tasks, id |-> 0, err |-> "ErrServerBusy"]

\* C40: a task whose ExpiresAt has passed but which no sweep has removed yet
\* is a stored task like any other.  On a store that is not cancelled,
\* AddFileToTask, GetTaskStatus and ProcessTask on it go as for a task that
\* has not expired, and it counts toward MaxTotal: CreateTask fails with
\* ErrServerBusy when the store is full, were every stored task overdue.
C40_OverdueTaskStillLive ==
    /\ [](~cancelled => \A t \in TaskIDs : Overdue(t) => OverdueAnswers(t))
    /\ [][\A p \in Procs :
            (~cancelled /\ Overdue(req[p].id)) =>
                /\ (pc[p] = "gs_loader" /\ pc'[p] # "gs_loader") => ret'[p] = "nil"
                /\ LeavesLookup(p) =>
                      /\ pc'[p] = "pt_download"
                      /\ snap'[p] = tasks[req[p].id].Files]_vars

\* the store is full of overdue tasks and refuses a new one, while an
\* archive request for an overdue task has passed the lookup and downloads
C40_FullOfOverdueTasks ==
    /\ ~cancelled
    /\ cfg.MaxTotal > 0
    /\ Cardinality(Live) = cfg.MaxTotal
    /\ \A t \in Live : isExpired(tasks[t])
    /\ StorCreateTask(1).err = "ErrServerBusy"
    /\ \E p \in Procs :
          /\ pc[p] = "pt_download"
          /\ Overdue(req[p].id)
          /\ Len(call[p].urls) > 0
====
